---- MODULE Spec2Model ----
(***************************************************************************)
(* easyscout: the credit ledger (db.py / db_pg.py) and the report          *)
(* orchestrator's charging paths (services/reports.py).                    *)
(*                                                                         *)
(* SpecLedger: spend_credits / refund_credits as PostgreSQL transactions,  *)
(* one action per SQL statement, READ COMMITTED, row locks on              *)
(* user_credits(user_id) and on the unique index of                        *)
(* credit_ledger(source_type, source_id).                                  *)
(*                                                                         *)
(* SpecScout: POST /api/scout (services/reports.py), concurrent requests,  *)
(* one action per stage of the route; a ledger call is one step there.     *)
(***************************************************************************)
EXTENDS Integers, Sequences, FiniteSets, TLC

VARIABLES
    user_credits,   \* public.user_credits, committed: [user_id -> balance], partial
    credit_ledger,  \* public.credit_ledger, committed, in insertion order
    bal0,           \* balance of every user before the first call (history)
    pc,             \* position of every ledger call in its function
    call,           \* arguments of every ledger call
    tx,             \* the call's open transaction: uncommitted writes
    new_balance,    \* the local new_balance / row2 of the call
    result,         \* what the call returned or raised
    started_after,  \* calls that had returned when this call began (history)
    reports,        \* public.reports in insertion order; the id of a row is its index
    reports0,       \* public.reports before the first request (history)
    req,            \* every /api/scout request: inputs, position, locals, outcome
    site,           \* which call of _best_similar_report this is
    hint,           \* the league or team the caller supplied, if any
    candidates,     \* rows list_reports returned, newest first
    stage,          \* position of the matching call
    best,           \* index of the best candidate of the fuzzy scan, 0 for None
    best_score,     \* best_score of the fuzzy scan
    match_result,   \* what the matching call returned
    tops,           \* what find_nearest returned to the embedding check
    fn,             \* the name helper under call
    arg,            \* its arguments
    ret,            \* what it returned
    returned,       \* whether it has returned
    query_embeddings, \* query_embeddings table: query_hash of every stored row
    lookup,         \* every find_nearest call: text, position, local emb
    embed_calls,    \* embed_text calls made so far, per text (history)
    session,        \* the Stripe checkout session: user, credits, payment status
    events,         \* the events Stripe has emitted for the session
    stripe_events,  \* stripe_events table: the event ids recorded
    stripe_purchases, \* stripe_purchases table: the session ids recorded
    handler,        \* every webhook delivery or confirm call under way
    db_failures     \* database calls that have raised so far

tableVars == <<user_credits, credit_ledger, bal0>>
callVars == <<pc, call, tx, new_balance, result, started_after>>
scoutVars == <<reports, reports0, req>>
matchVars == <<site, hint, candidates, stage, best, best_score, match_result>>
embedVars == <<tops>>
namesVars == <<fn, arg, ret, returned>>
cacheVars == <<query_embeddings, lookup, embed_calls>>
billingVars == <<session, events, stripe_events, stripe_purchases, handler,
                 db_failures>>
ledgerVars == <<user_credits, credit_ledger, bal0, pc, call, tx, new_balance,
                result, started_after, scoutVars, matchVars,
                embedVars, namesVars, cacheVars, billingVars>>
vars == <<tableVars, callVars, scoutVars, matchVars, embedVars, namesVars,
          cacheVars, billingVars>>

----------------------------------------------------------------------------
(* Bounds *)

NumCalls == 2
MaxInitBalance == 2
MaxAmount == 2
NumRequests == 2
MaxReportId == 2

Calls == 1..NumCalls
Users == {"u1", "u2"}
SourceKeys == {"k1", "k2"}      \* a (source_type, source_id) pair
\* what a caller may pass: a pair, or "" for a missing type or id
SourceArgs == SourceKeys \cup {""}
Amounts == 0..MaxAmount
Ops == {"spend", "refund", "refund_pg"}
Requests == 1..NumRequests
ReportIds == 1..MaxReportId
\* a player stands for the spellings that name matching identifies
Players == {"p1"}

----------------------------------------------------------------------------
(* Tables *)

LedgerEntry(u, d, k) == [user_id |-> u, delta |-> d, source |-> k]

\* get_balance: the stored balance, 0 when the user has no row
get_balance(uc, u) == IF u \in DOMAIN uc THEN uc[u] ELSE 0

RECURSIVE SumDeltas(_, _)
SumDeltas(led, u) ==
    IF led = <<>> THEN 0
    ELSE (IF Head(led).user_id = u THEN Head(led).delta ELSE 0)
         + SumDeltas(Tail(led), u)

EntriesWithSource(led, k) == {i \in 1..Len(led) : led[i].source = k}

\* the initial grant of user u (a purchase or bonus applied before the run)
GrantSource(u) == "grant_" \o u

NoTx == [ins_row |-> FALSE, upd |-> FALSE, bal |-> 0, led |-> FALSE]
NoCall == [op |-> "spend", user_id |-> "u1", amount |-> 0, source |-> "k1"]
NoResult == [status |-> "none", value |-> 0]
Returned(v) == [status |-> "ok", value |-> v]
Raised(e) == [status |-> e, value |-> 0]

----------------------------------------------------------------------------
(* Locks held by open transactions *)

HoldsRow(q, u) == call[q].user_id = u /\ (tx[q].ins_row \/ tx[q].upd)
HoldsSource(q, k) == call[q].source = k /\ tx[q].led

RowLockedByOther(p, u) == \E q \in Calls \ {p} : HoldsRow(q, u)
SourceLockedByOther(p, k) == \E q \in Calls \ {p} : HoldsSource(q, k)

\* the balance the transaction of p sees for its user
Visible(p) ==
    IF tx[p].ins_row \/ tx[p].upd THEN tx[p].bal
    ELSE get_balance(user_credits, call[p].user_id)

\* mutant: no unique index on (source_type, source_id)
UniqueViolation_never(led, k) == FALSE

\* the unique index on (source_type, source_id) rejects the insert
UniqueViolation(led, k) == EntriesWithSource(led, k) # {}

\* mutant: the update without its "and balance >= amount" condition
SufficientBalance_unconditional(cur, amount) == TRUE

\* update ... where balance >= amount
SufficientBalance(cur, amount) == cur >= amount

\* tables after COMMIT of the transaction of p
CommitCredits(p) ==
    IF tx[p].ins_row \/ tx[p].upd
    THEN [u \in DOMAIN user_credits \cup {call[p].user_id} |->
            IF u = call[p].user_id THEN tx[p].bal ELSE user_credits[u]]
    ELSE user_credits

Delta(p) == IF call[p].op = "spend" THEN 0 - call[p].amount ELSE call[p].amount

CommitLedger(p) ==
    IF tx[p].led
    THEN Append(credit_ledger, LedgerEntry(call[p].user_id, Delta(p), call[p].source))
    ELSE credit_ledger

----------------------------------------------------------------------------
(* spend_credits / refund_credits: argument checks and _ensure_user_row *)

\* calls are numbered in the order in which they begin
Begin(p) ==
    /\ pc[p] = "idle"
    /\ \A q \in Calls : q < p => pc[q] # "idle"
    /\ \E op \in Ops, u \in Users, a \in Amounts, k \in SourceArgs :
         /\ call' = [call EXCEPT ![p] = [op |-> op, user_id |-> u, amount |-> a, source |-> k]]
         /\ IF a <= 0 \/ k = ""
            THEN /\ pc' = [pc EXCEPT ![p] = "done"]
                 /\ result' = [result EXCEPT ![p] = Raised("ValueError")]
            ELSE /\ pc' = [pc EXCEPT ![p] = "ensure"]
                 /\ UNCHANGED result
    /\ started_after' = [started_after EXCEPT ![p] = {q \in Calls : pc[q] = "done"}]
    /\ UNCHANGED <<user_credits, credit_ledger, bal0, tx, new_balance>>
    /\ UNCHANGED <<scoutVars, matchVars, embedVars, billingVars, namesVars, cacheVars>>

\* the welcome bonus
WelcomeCredits == 3

welcome_source_per_call(u) ==
    "onboarding/welcome_bonus_" \o u \o "_"
        \o (IF \A q \in Calls : pc[q] = "idle" THEN "1" ELSE "2")

\* source_type "onboarding", source_id f"welcome_bonus_{user_id}"
welcome_source(u) == "onboarding/welcome_bonus_" \o u

\* initialize_user_with_welcome_credits(user_id): refund_credits of the module
\* in use (db.py or db_pg.py) with the bonus and the user's welcome key
InitializeUserWithWelcomeCredits(p) ==
    /\ pc[p] = "idle"
    /\ \A q \in Calls : q < p => pc[q] # "idle"
    /\ \E op \in {"refund", "refund_pg"}, u \in Users :
         call' = [call EXCEPT ![p] = [op |-> op, user_id |-> u,
                                      amount |-> WelcomeCredits,
                                      source |-> welcome_source(u)]]
    /\ pc' = [pc EXCEPT ![p] = "ensure"]
    /\ started_after' = [started_after EXCEPT ![p] = {q \in Calls : pc[q] = "done"}]
    /\ UNCHANGED <<user_credits, credit_ledger, bal0, tx, new_balance, result>>
    /\ UNCHANGED <<scoutVars, matchVars, embedVars, billingVars, namesVars, cacheVars>>

AfterEnsure(op) ==
    CASE op = "spend" -> "update"
      [] op = "refund" -> "r_insert"
      [] op = "refund_pg" -> "update"

EnsureUserRow(p) ==
    /\ pc[p] = "ensure"
    /\ LET u == call[p].user_id IN
         IF u \in DOMAIN user_credits
         THEN UNCHANGED tx
         ELSE /\ ~RowLockedByOther(p, u)
              /\ tx' = [tx EXCEPT ![p].ins_row = TRUE, ![p].bal = 0]
    /\ pc' = [pc EXCEPT ![p] = AfterEnsure(call[p].op)]
    /\ UNCHANGED <<user_credits, credit_ledger, bal0, call, new_balance, result, started_after>>
    /\ UNCHANGED <<scoutVars, matchVars, embedVars, billingVars, namesVars, cacheVars>>

----------------------------------------------------------------------------
(* spend_credits (db.py 144-182, db_pg.py 108-146) *)

\* mutant: the balance is decremented and committed before it is checked
SpendUpdate_charges_before_check(p) ==
    /\ pc[p] = "update"
    /\ call[p].op = "spend"
    /\ ~RowLockedByOther(p, call[p].user_id)
    /\ IF SufficientBalance(Visible(p), call[p].amount)
       THEN /\ tx' = [tx EXCEPT ![p].upd = TRUE, ![p].bal = Visible(p) - call[p].amount]
            /\ new_balance' = [new_balance EXCEPT ![p] = Visible(p) - call[p].amount]
            /\ pc' = [pc EXCEPT ![p] = "insert"]
            /\ UNCHANGED <<result, user_credits>>
       ELSE /\ user_credits' =
                 [u \in DOMAIN user_credits \cup {call[p].user_id} |->
                    IF u = call[p].user_id THEN Visible(p) - call[p].amount
                    ELSE user_credits[u]]
            /\ tx' = [tx EXCEPT ![p] = NoTx]
            /\ pc' = [pc EXCEPT ![p] = "done"]
            /\ result' = [result EXCEPT ![p] = Raised("INSUFFICIENT_CREDITS")]
            /\ UNCHANGED new_balance
    /\ UNCHANGED <<credit_ledger, bal0, call, started_after>>
    /\ UNCHANGED <<scoutVars, matchVars, embedVars, billingVars, namesVars, cacheVars>>

\* update user_credits set balance = balance - amount
\*  where user_id = u and balance >= amount returning balance
SpendUpdate(p) ==
    /\ pc[p] = "update"
    /\ call[p].op = "spend"
    /\ ~RowLockedByOther(p, call[p].user_id)
    /\ IF SufficientBalance(Visible(p), call[p].amount)
       THEN /\ tx' = [tx EXCEPT ![p].upd = TRUE, ![p].bal = Visible(p) - call[p].amount]
            /\ new_balance' = [new_balance EXCEPT ![p] = Visible(p) - call[p].amount]
            /\ pc' = [pc EXCEPT ![p] = "insert"]
            /\ UNCHANGED result
       ELSE \* no row: conn.rollback(); raise ValueError("INSUFFICIENT_CREDITS")
            /\ tx' = [tx EXCEPT ![p] = NoTx]
            /\ pc' = [pc EXCEPT ![p] = "done"]
            /\ result' = [result EXCEPT ![p] = Raised("INSUFFICIENT_CREDITS")]
            /\ UNCHANGED new_balance
    /\ UNCHANGED <<user_credits, credit_ledger, bal0, call, started_after>>
    /\ UNCHANGED <<scoutVars, matchVars, embedVars, billingVars, namesVars, cacheVars>>

\* mutant: the UniqueViolation handler commits the balance update
RollbackCredits_commits(p) == CommitCredits(p)

\* the committed balance table after the UniqueViolation handler's conn.rollback()
RollbackCredits(p) == user_credits

\* insert into credit_ledger (...): spend_credits and db_pg.refund_credits
InsertLedger(p) ==
    /\ pc[p] = "insert"
    /\ IF UniqueViolation(credit_ledger, call[p].source)
       THEN \* except UniqueViolation: conn.rollback()
            /\ tx' = [tx EXCEPT ![p] = NoTx]
            /\ user_credits' = RollbackCredits(p)
            /\ pc' = [pc EXCEPT ![p] = "reread"]
       ELSE /\ ~SourceLockedByOther(p, call[p].source)
            /\ tx' = [tx EXCEPT ![p].led = TRUE]
            /\ pc' = [pc EXCEPT ![p] = "commit"]
            /\ UNCHANGED user_credits
    /\ UNCHANGED <<credit_ledger, bal0, call, new_balance, result, started_after>>
    /\ UNCHANGED <<scoutVars, matchVars, embedVars, billingVars, namesVars, cacheVars>>

\* conn.commit(); return new_balance
Commit(p) ==
    /\ pc[p] = "commit"
    /\ user_credits' = CommitCredits(p)
    /\ credit_ledger' = CommitLedger(p)
    /\ tx' = [tx EXCEPT ![p] = NoTx]
    /\ result' = [result EXCEPT ![p] = Returned(new_balance[p])]
    /\ pc' = [pc EXCEPT ![p] = "done"]
    /\ UNCHANGED <<bal0, call, new_balance, started_after>>
    /\ UNCHANGED <<scoutVars, matchVars, embedVars, billingVars, namesVars, cacheVars>>

\* select balance from user_credits where user_id = u; return row2[0] or 0
Reread(p) ==
    /\ pc[p] = "reread"
    /\ result' = [result EXCEPT ![p] = Returned(get_balance(user_credits, call[p].user_id))]
    /\ pc' = [pc EXCEPT ![p] = "done"]
    /\ UNCHANGED <<user_credits, credit_ledger, bal0, call, tx, new_balance, started_after>>
    /\ UNCHANGED <<scoutVars, matchVars, embedVars, billingVars, namesVars, cacheVars>>

----------------------------------------------------------------------------
(* db_pg.refund_credits (db_pg.py 166-198): update first, then insert *)

RefundPgUpdate(p) ==
    /\ pc[p] = "update"
    /\ call[p].op = "refund_pg"
    /\ ~RowLockedByOther(p, call[p].user_id)
    /\ tx' = [tx EXCEPT ![p].upd = TRUE, ![p].bal = Visible(p) + call[p].amount]
    /\ new_balance' = [new_balance EXCEPT ![p] = Visible(p) + call[p].amount]
    /\ pc' = [pc EXCEPT ![p] = "insert"]
    /\ UNCHANGED <<user_credits, credit_ledger, bal0, call, result, started_after>>
    /\ UNCHANGED <<scoutVars, matchVars, embedVars, billingVars, namesVars, cacheVars>>

----------------------------------------------------------------------------
(* db.refund_credits (db.py 202-236): insert ... on conflict do nothing first *)

RefundInsert(p) ==
    /\ pc[p] = "r_insert"
    /\ IF UniqueViolation(credit_ledger, call[p].source)
       THEN \* inserted is None
            /\ pc' = [pc EXCEPT ![p] = "r_conflict"]
            /\ UNCHANGED tx
       ELSE /\ ~SourceLockedByOther(p, call[p].source)
            /\ tx' = [tx EXCEPT ![p].led = TRUE]
            /\ pc' = [pc EXCEPT ![p] = "r_update"]
    /\ UNCHANGED <<user_credits, credit_ledger, bal0, call, new_balance, result, started_after>>
    /\ UNCHANGED <<scoutVars, matchVars, embedVars, billingVars, namesVars, cacheVars>>

\* if not inserted: conn.commit()
RefundConflictCommit(p) ==
    /\ pc[p] = "r_conflict"
    /\ user_credits' = CommitCredits(p)
    /\ credit_ledger' = CommitLedger(p)
    /\ tx' = [tx EXCEPT ![p] = NoTx]
    /\ pc' = [pc EXCEPT ![p] = "reread"]
    /\ UNCHANGED <<bal0, call, new_balance, result, started_after>>
    /\ UNCHANGED <<scoutVars, matchVars, embedVars, billingVars, namesVars, cacheVars>>

\* update user_credits set balance = balance + amount returning balance
RefundUpdate(p) ==
    /\ pc[p] = "r_update"
    /\ ~RowLockedByOther(p, call[p].user_id)
    /\ tx' = [tx EXCEPT ![p].upd = TRUE, ![p].bal = Visible(p) + call[p].amount]
    /\ new_balance' = [new_balance EXCEPT ![p] = Visible(p) + call[p].amount]
    /\ pc' = [pc EXCEPT ![p] = "commit"]
    /\ UNCHANGED <<user_credits, credit_ledger, bal0, call, result, started_after>>
    /\ UNCHANGED <<scoutVars, matchVars, embedVars, billingVars, namesVars, cacheVars>>

----------------------------------------------------------------------------
(* PostgreSQL's deadlock detector: a statement that waits in a cycle of     *)
(* lock waits fails, the exception leaves the function and the connection   *)
(* context rolls the transaction back.                                      *)

WaitsFor(p, q) ==
    /\ p # q
    /\ \/ /\ pc[p] = "ensure"
          /\ call[p].user_id \notin DOMAIN user_credits
          /\ HoldsRow(q, call[p].user_id)
       \/ /\ pc[p] \in {"update", "r_update"}
          /\ HoldsRow(q, call[p].user_id)
       \/ /\ pc[p] \in {"insert", "r_insert"}
          /\ ~UniqueViolation(credit_ledger, call[p].source)
          /\ HoldsSource(q, call[p].source)

RECURSIVE WaitReach(_, _)
WaitReach(S, n) ==
    IF n = 0 THEN S
    ELSE WaitReach(S \cup {q \in Calls : \E r \in S : WaitsFor(r, q)}, n - 1)

InWaitCycle(p) == p \in WaitReach({q \in Calls : WaitsFor(p, q)}, NumCalls)

DeadlockDetected(p) ==
    /\ InWaitCycle(p)
    /\ tx' = [tx EXCEPT ![p] = NoTx]
    /\ pc' = [pc EXCEPT ![p] = "done"]
    /\ result' = [result EXCEPT ![p] = Raised("DeadlockDetected")]
    /\ UNCHANGED <<user_credits, credit_ledger, bal0, call, new_balance, started_after>>
    /\ UNCHANGED <<scoutVars, matchVars, embedVars, billingVars, namesVars, cacheVars>>

----------------------------------------------------------------------------
(* The ledger specification *)

InitTables ==
    /\ bal0 \in [Users -> 0..MaxInitBalance]
    /\ \E rows \in SUBSET Users :
         /\ \A u \in Users : bal0[u] > 0 => u \in rows
         /\ user_credits = [u \in rows |-> bal0[u]]
    /\ credit_ledger =
         SelectSeq(<<LedgerEntry("u1", bal0["u1"], GrantSource("u1")),
                     LedgerEntry("u2", bal0["u2"], GrantSource("u2"))>>,
                   LAMBDA e : e.delta > 0)

InitLedgerCalls ==
    /\ pc = [p \in Calls |-> "idle"]
    /\ call = [p \in Calls |-> NoCall]
    /\ tx = [p \in Calls |-> NoTx]
    /\ new_balance = [p \in Calls |-> 0]
    /\ result = [p \in Calls |-> NoResult]
    /\ started_after = [p \in Calls |-> {}]

\* a request that has not arrived
NoReq ==
    [pc |-> "idle", user_id |-> "u1", player |-> "p1",
     refresh |-> FALSE, refresh_stats |-> FALSE, report_id |-> 0,
     suggestion_report_id |-> 0, existing |-> 0, name |-> "p1", status |-> 0,
     delta |-> 0, debits |-> 0, failed |-> "none", refund_raised |-> FALSE,
     log |-> {}, body |-> 0, team |-> "", source_owner |-> ""]

InitNoRequests ==
    /\ reports = <<>>
    /\ reports0 = <<>>
    /\ req = [r \in Requests |-> NoReq]

\* a matching call that has not returned anything
NoOutcome == [type |-> "pending", report_id |-> 0, score |-> 0, by |-> "none"]

\* no matching call is under way
InitNoMatch ==
    /\ site = "pre_similarity"
    /\ hint = "none"
    /\ candidates = <<>>
    /\ stage = "idle"
    /\ best = 0
    /\ best_score = 0
    /\ match_result = NoOutcome

\* no embedding lookup is under way
InitNoEmbed ==
    /\ tops = <<>>

\* no name helper under call
InitNoNames ==
    /\ fn = "none"
    /\ arg = <<>>
    /\ ret = <<>>
    /\ returned = FALSE

\* no find_nearest call, an empty query_embeddings table
InitNoCache ==
    /\ query_embeddings = {}
    /\ lookup = <<>>
    /\ embed_calls = <<>>

\* no checkout session, no webhook delivery, no confirm call
NoSession == [user_id |-> "", credits |-> 0, payment_status |-> "none"]

NoHandler ==
    [kind |-> "none", pc |-> "idle", event |-> "", user_id |-> "",
     first_time |-> FALSE, status |-> 0, raised |-> FALSE]

NumHandlers == 2
Handlers == 1..NumHandlers

InitNoBilling ==
    /\ session = NoSession
    /\ events = {}
    /\ stripe_events = {}
    /\ stripe_purchases = {}
    /\ handler = [h \in Handlers |-> NoHandler]
    /\ db_failures = 0

InitLedger ==
    /\ InitTables /\ InitLedgerCalls /\ InitNoRequests
    /\ InitNoMatch /\ InitNoEmbed /\ InitNoNames /\ InitNoCache /\ InitNoBilling

NextLedger ==
    \E p \in Calls :
        \/ Begin(p)
        \/ InitializeUserWithWelcomeCredits(p)
        \/ EnsureUserRow(p)
        \/ SpendUpdate(p)
        \/ InsertLedger(p)
        \/ Commit(p)
        \/ Reread(p)
        \/ RefundPgUpdate(p)
        \/ RefundInsert(p)
        \/ RefundConflictCommit(p)
        \/ RefundUpdate(p)
        \/ DeadlockDetected(p)

SpecLedger == InitLedger /\ [][NextLedger]_ledgerVars

----------------------------------------------------------------------------
(* Claims about the ledger, under SpecLedger *)

Done(p) == pc[p] = "done"
OthersIdle(p, q) == \A r \in Calls \ {p, q} : pc[r] = "idle"
Concurrent(p, q) == p \notin started_after[q] /\ q \notin started_after[p]

\* two returned calls of the same function for the same user, each with a
\* source type and id, nothing else run
Pair(p, q, ops) ==
    /\ p # q
    /\ Done(p) /\ Done(q)
    /\ OthersIdle(p, q)
    /\ call[p].source # "" /\ call[q].source # ""
    /\ call[p].op \in ops /\ call[q].op = call[p].op
    /\ call[p].user_id = call[q].user_id
    /\ call[p].amount = call[q].amount

\* C1: a user with balance 1 and two spends of 1 under different
\* (source_type, source_id) keys, in any interleaving: exactly one returns, the
\* other raises INSUFFICIENT_CREDITS, and the balance ends at 0.
C1_OneCreditOneSpend ==
    \A p, q \in Calls :
        ( /\ Pair(p, q, {"spend"})
          /\ call[p].amount = 1
          /\ bal0[call[p].user_id] = 1
          /\ call[p].source # call[q].source )
        => /\ {result[p].status, result[q].status} = {"ok", "INSUFFICIENT_CREDITS"}
           /\ get_balance(user_credits, call[p].user_id) = 0

C1_Witness ==
    \E p, q \in Calls :
        /\ Pair(p, q, {"spend"})
        /\ call[p].amount = 1
        /\ bal0[call[p].user_id] = 1
        /\ call[p].source # call[q].source
        /\ Concurrent(p, q)
        /\ result[q].status = "INSUFFICIENT_CREDITS"

\* C2 as stated: spend(u, 1) called twice with the same key, in any
\* interleaving, leaves exactly one ledger entry with that key and the balance
\* of u decreased by exactly 1.
C2_Original ==
    \A p, q \in Calls :
        ( /\ Pair(p, q, {"spend"})
          /\ call[p].amount = 1
          /\ call[p].source = call[q].source )
        => /\ Cardinality(EntriesWithSource(credit_ledger, call[p].source)) = 1
           /\ get_balance(user_credits, call[p].user_id) = bal0[call[p].user_id] - 1

\* C2 amended: the same, for a user whose balance before the calls is at least
\* 1 and a key no ledger entry carries yet.
C2_SameKeyOneDebit ==
    \A p, q \in Calls :
        ( /\ Pair(p, q, {"spend"})
          /\ call[p].amount = 1
          /\ call[p].source = call[q].source
          /\ bal0[call[p].user_id] >= 1 )
        => /\ Cardinality(EntriesWithSource(credit_ledger, call[p].source)) = 1
           /\ get_balance(user_credits, call[p].user_id) = bal0[call[p].user_id] - 1

C2_Witness ==
    \E p, q \in Calls :
        /\ Pair(p, q, {"spend"})
        /\ call[p].amount = 1
        /\ call[p].source = call[q].source
        /\ bal0[call[p].user_id] = 2
        /\ Concurrent(p, q)
        /\ result[p].status = "ok" /\ result[q].status = "ok"

\* C3: with starting balance b >= 1, a spend of 1 called again with the key of
\* an applied spend returns b - 1 and does not raise, also when b - 1 = 0.
C3_RepeatReturnsBalance ==
    \A p, q \in Calls :
        ( /\ Pair(p, q, {"spend"})
          /\ call[p].amount = 1
          /\ call[p].source = call[q].source
          /\ bal0[call[p].user_id] >= 1
          /\ p \in started_after[q] )
        => result[q] = Returned(bal0[call[p].user_id] - 1)

\* C4: refund(u, n) called twice with the same key, in any interleaving, raises
\* the balance by exactly n, under one ledger entry; both calls return that
\* balance when they are calls of the same function.
C4_SameKeyOneRefund ==
    \A p, q \in Calls :
        ( /\ Pair(p, q, {"refund", "refund_pg"})
          /\ call[p].amount >= 1
          /\ call[p].source = call[q].source )
        => /\ get_balance(user_credits, call[p].user_id)
                = bal0[call[p].user_id] + call[p].amount
           /\ Cardinality(EntriesWithSource(credit_ledger, call[p].source)) = 1
           /\ result[p] = Returned(bal0[call[p].user_id] + call[p].amount)
           /\ result[q] = Returned(bal0[call[p].user_id] + call[p].amount)

C4_Witness ==
    \E p, q \in Calls :
        /\ Pair(p, q, {"refund_pg"})
        /\ call[p].source = call[q].source
        /\ call[p].amount = 2
        /\ Concurrent(p, q)
        /\ get_balance(user_credits, call[p].user_id) = bal0[call[p].user_id] + 2

\* C5: in every committed state every user's stored balance is the sum of the
\* deltas of that user's ledger entries.
C5_BalanceIsLedgerSum ==
    \A u \in Users : get_balance(user_credits, u) = SumDeltas(credit_ledger, u)

\* a spend that hit the key another user's spend had used first
C5_Witness ==
    \E p, q \in Calls :
        /\ Done(p) /\ Done(q)
        /\ call[p].op = "spend" /\ call[q].op = "spend"
        /\ call[p].user_id # call[q].user_id
        /\ call[p].source = call[q].source
        /\ result[p].status = "ok" /\ result[q].status = "ok"
        /\ Cardinality(EntriesWithSource(credit_ledger, call[p].source)) = 1

----------------------------------------------------------------------------
(* public.reports and the ledger as /api/scout uses them                    *)

\* a row of public.reports: its owner, the stored player_name, and its
\* query_key, made of the canonical player of the query and of the fields the
\* query object carried ("ptu": player, team, use_web; "ptlsu": with league
\* and season, "ptlsu:t" with a team t), and the source_user_id key of its
\* payload, "" when the payload has none
ReportRow(u, name, qp, form) ==
    [user_id |-> u, player_name |-> name, qplayer |-> qp, qform |-> form,
     source_user_id |-> ""]

\* the team of an accepting request
Teams == {"", "t1"}

\* the fields of the query object an acceptance builds its key from
accept_form(team) == IF team = "" THEN "ptlsu" ELSE "ptlsu:" \o team

make_query_key(qp, form) == <<qp, form>>
RowKey(row) == make_query_key(row.qplayer, row.qform)

\* names_match (imported from utils.name_matching, whose definition is not in
\* the source tree), after the specification's name matching: two names match
\* when they are spellings of one player; a member of Players stands for the
\* class of its spellings
names_match(a, b) == a = b

SetMax(S) == CHOOSE x \in S : \A y \in S : y <= x

\* get_report_by_id / the direct read of fetch_report_payload: any owner
get_report_by_id(reps, id) == id \in DOMAIN reps

\* get_report_by_id(id)["source_user_id"]: the key of the stored payload,
\* set to the owner of the row only when the payload has none
source_user_id(reps, id) ==
    IF reps[id].source_user_id # "" THEN reps[id].source_user_id
    ELSE reps[id].user_id

\* get_report: where id = %s and user_id = %s
get_report(reps, u, id) == id \in DOMAIN reps /\ reps[id].user_id = u

\* fetch_report_payload: get_report, then the read by id alone
fetch_report_payload(reps, u, id) ==
    get_report(reps, u, id) \/ get_report_by_id(reps, id)

\* find_report_by_query_key: the id of the user's row with the key, or 0
find_report_by_query_key(reps, u, key) ==
    LET S == {i \in DOMAIN reps : reps[i].user_id = u /\ RowKey(reps[i]) = key}
    IN IF S = {} THEN 0 ELSE SetMax(S)

\* mutant: the library check never finds the user's report
check_user_library_miss(reps, u, player) == 0

\* _check_user_library: the user's row whose query names the player, else the
\* row with the query key; 0 when the user has none
check_user_library(reps, u, player) ==
    LET S == {i \in DOMAIN reps :
                 reps[i].user_id = u /\ names_match(player, reps[i].qplayer)}
    IN IF S # {} THEN SetMax(S)
       ELSE find_report_by_query_key(reps, u, make_query_key(player, "ptu"))

\* mutant: a plain insert, without "on conflict (user_id, query_key)"
upsert_report_append(reps, u, name, qp, form, src) ==
    Append(reps, [ReportRow(u, name, qp, form) EXCEPT !.source_user_id = src])

\* upsert_report: insert ... on conflict (user_id, query_key) do update;
\* src is the source_user_id key of the payload that is saved
upsert_report(reps, u, name, qp, form, src) ==
    LET id == find_report_by_query_key(reps, u, make_query_key(qp, form))
    IN IF id = 0
       THEN Append(reps, [ReportRow(u, name, qp, form) EXCEPT !.source_user_id = src])
       ELSE [reps EXCEPT ![id].player_name = name, ![id].source_user_id = src]

\* update_report_by_id finds the row of this user
update_report_by_id_found(reps, u, id) == get_report(reps, u, id)

\* (source_type, source_id) of a ledger entry
Src(source_type, source_id) == source_type \o "/" \o source_id

\* str(uuid.uuid4()): one fresh id per request
RequestId(r) == "req" \o ToString(r)

\* mutant: a spend that returns without touching the tables
spend_credits_untouched(uc, led, u, src) ==
    [uc |-> uc, led |-> led, raised |-> "none", applied |-> FALSE]

\* spend_credits(user_id, 1, ...) as one step: the tables after the call, what
\* it raised, and whether it debited
spend_credits(uc, led, u, src) ==
    IF ~SufficientBalance(get_balance(uc, u), 1)
    THEN [uc |-> uc, led |-> led, raised |-> "INSUFFICIENT_CREDITS", applied |-> FALSE]
    ELSE IF UniqueViolation(led, src)
    THEN [uc |-> uc, led |-> led, raised |-> "none", applied |-> FALSE]
    ELSE [uc |-> [uc EXCEPT ![u] = @ - 1],
          led |-> Append(led, LedgerEntry(u, 0 - 1, src)),
          raised |-> "none", applied |-> TRUE]

\* refund_credits(user_id, 1, ...) as one step; fails is the call raising
\* (the store being unreachable), which leaves the tables as they were
refund_credits(uc, led, u, src, fails) ==
    IF fails
    THEN [uc |-> uc, led |-> led, raised |-> "Exception", applied |-> FALSE]
    ELSE IF UniqueViolation(led, src)
    THEN [uc |-> [v \in DOMAIN uc \cup {u} |-> get_balance(uc, v)],
          led |-> led, raised |-> "none", applied |-> FALSE]
    ELSE [uc |-> [v \in DOMAIN uc \cup {u} |->
                    IF v = u THEN get_balance(uc, u) + 1 ELSE uc[v]],
          led |-> Append(led, LedgerEntry(u, 1, src)),
          raised |-> "none", applied |-> TRUE]

----------------------------------------------------------------------------
(* POST /api/scout (services/reports.py): one action per stage               *)

MaxSecond == 2
Seconds == 1..MaxSecond         \* int(time.time()) of a stats refresh

\* the request bodies: a plain query, a stats refresh by name, a
\* regeneration without a report id, a regeneration of report id, a stats
\* refresh by report id, the acceptance of suggestion id with or without a team
ScoutInputs ==
    {[refresh |-> FALSE, refresh_stats |-> FALSE, report_id |-> 0, suggestion_report_id |-> 0, team |-> ""],
     [refresh |-> FALSE, refresh_stats |-> TRUE, report_id |-> 0, suggestion_report_id |-> 0, team |-> ""],
     [refresh |-> TRUE, refresh_stats |-> FALSE, report_id |-> 0, suggestion_report_id |-> 0, team |-> ""]}
    \cup {[refresh |-> TRUE, refresh_stats |-> FALSE, report_id |-> i, suggestion_report_id |-> 0, team |-> ""] : i \in ReportIds}
    \cup {[refresh |-> FALSE, refresh_stats |-> TRUE, report_id |-> i, suggestion_report_id |-> 0, team |-> ""] : i \in ReportIds}
    \cup {[refresh |-> FALSE, refresh_stats |-> FALSE, report_id |-> 0, suggestion_report_id |-> i, team |-> t] : i \in ReportIds, t \in Teams}

\* the response carries the full payload of report id
WithBody(q, id) == [q EXCEPT !.body = id]

\* the response leaves the handler
Respond(q, status) ==
    [q EXCEPT !.pc = "done", !.status = status, !.existing = 0, !.source_owner = ""]

\* a step after an applied debit of this request failed
FailedAfterDebit(q, step) == IF q.debits > 0 THEN [q EXCEPT !.failed = step] ELSE q

\* the locals of q after a spend_credits result s: 402 when it raised
\* INSUFFICIENT_CREDITS, else on to stage next
AfterSpend(q, s, next) ==
    IF s.raised # "none" THEN Respond(q, 402)
    ELSE [q EXCEPT !.pc = next,
                   !.delta = IF s.applied THEN @ - 1 ELSE @,
                   !.debits = IF s.applied THEN @ + 1 ELSE @]

\* the locals of q after a refund_credits result f inside
\* "try: refund_credits(...) except Exception: pass"
AfterRefund(q, f) ==
    [q EXCEPT !.delta = IF f.applied THEN @ + 1 ELSE @,
              !.refund_raised = @ \/ f.raised # "none"]

\* scout(): parse the body and route (1119-1195)
Start(r) ==
    /\ req[r].pc = "idle"
    /\ \A s \in Requests : s < r => req[s].pc # "idle"
    /\ \E u \in Users, p \in Players, in \in ScoutInputs :
         req' = [req EXCEPT ![r] =
                   [NoReq EXCEPT !.user_id = u, !.player = p,
                                 !.refresh = in.refresh,
                                 !.refresh_stats = in.refresh_stats,
                                 !.report_id = in.report_id,
                                 !.suggestion_report_id = in.suggestion_report_id,
                                 !.team = in.team,
                                 !.pc = IF in.refresh_stats /\ in.report_id # 0 /\ ~in.refresh
                                        THEN "fast"
                                        ELSE IF in.suggestion_report_id # 0 THEN "accept"
                                        ELSE "library"]]
    /\ UNCHANGED <<tableVars, callVars, matchVars, embedVars, billingVars, namesVars, cacheVars, reports, reports0>>

\* fast path of a stats refresh by report id (1149-1179)
FastPath(r) ==
    /\ req[r].pc = "fast"
    /\ LET q == req[r] IN
         req' = [req EXCEPT ![r] =
                   IF fetch_report_payload(reports, q.user_id, q.report_id)
                   THEN [q EXCEPT !.pc = "cached", !.existing = q.report_id]
                   ELSE Respond(q, 404)]
    /\ UNCHANGED <<tableVars, callVars, matchVars, embedVars, billingVars, namesVars, cacheVars, reports, reports0>>

\* _check_user_library and the routing on its result (1200-1211)
CheckUserLibrary(r) ==
    /\ req[r].pc = "library"
    /\ LET q == req[r]
           existing == check_user_library(reports, q.user_id, q.player) IN
         req' = [req EXCEPT ![r] =
                   IF existing # 0 /\ ~(q.report_id # 0 /\ q.refresh)
                   THEN [q EXCEPT !.pc = "cached", !.existing = existing]
                   ELSE [q EXCEPT !.pc = "similarity"]]
    /\ UNCHANGED <<tableVars, callVars, matchVars, embedVars, billingVars, namesVars, cacheVars, reports, reports0>>

\* _handle_cached_report up to the charge of a stats refresh (357-448)
HandleCachedReport(r) ==
    /\ req[r].pc = "cached"
    /\ \E stats_are_stale \in BOOLEAN, t \in Seconds :
         LET q == req[r]
             src == Src("stats_refresh",
                        "stats_refresh_" \o ToString(q.existing) \o "_" \o ToString(t))
             s == spend_credits(user_credits, credit_ledger, q.user_id, src) IN
           IF stats_are_stale /\ q.refresh_stats
           THEN /\ user_credits' = s.uc
                /\ credit_ledger' = s.led
                /\ req' = [req EXCEPT ![r] = AfterSpend(q, s, "stats_llm")]
           ELSE /\ req' = [req EXCEPT ![r] = Respond(WithBody(q, q.existing), 200)]
                /\ UNCHANGED <<user_credits, credit_ledger>>
    /\ UNCHANGED <<bal0, callVars, matchVars, embedVars, billingVars, namesVars, cacheVars, reports, reports0>>

\* the stats refresh after its charge (450-553): the model call, then
\* update_report_by_id of the user's row
StatsRefresh(r) ==
    /\ req[r].pc = "stats_llm"
    /\ \E outcome \in {"updated", "unchanged", "exception"} :
         LET q == req[r] IN
           req' = [req EXCEPT ![r] =
             CASE outcome = "unchanged" -> Respond(WithBody(q, q.existing), 200)
               [] outcome = "updated" ->
                    IF update_report_by_id_found(reports, q.user_id, q.existing)
                    THEN Respond(WithBody(q, q.existing), 200)
                    ELSE \* ValueError, re-raised by "except ValueError"
                         Respond(FailedAfterDebit(
                                   [q EXCEPT !.log = @ \cup {"stats_refresh_value_error"}],
                                   "stats_refresh"),
                                 IF q.report_id # 0 THEN 400 ELSE 500)
               [] outcome = "exception" ->
                    Respond(FailedAfterDebit(
                              [q EXCEPT !.log = @ \cup {"stats_refresh_exception"}],
                              "stats_refresh"), 500)]
    /\ UNCHANGED <<tableVars, callVars, matchVars, embedVars, billingVars, namesVars, cacheVars, reports, reports0>>

\* _handle_suggestion_acceptance up to its charge (115-213)
AcceptSuggestion(r) ==
    /\ req[r].pc = "accept"
    /\ LET q == req[r]
           id == q.suggestion_report_id
           src == Src("scout_request", "accept_suggestion_" \o ToString(id))
           s == spend_credits(user_credits, credit_ledger, q.user_id, src) IN
         IF ~get_report_by_id(reports, id)
         THEN /\ req' = [req EXCEPT ![r] = Respond(q, 404)]
              /\ UNCHANGED <<user_credits, credit_ledger>>
         ELSE IF source_user_id(reports, id) = q.user_id
         THEN /\ req' = [req EXCEPT ![r] = Respond(WithBody(q, id), 200)]
              /\ UNCHANGED <<user_credits, credit_ledger>>
         ELSE IF find_report_by_query_key(reports, q.user_id,
                    make_query_key(reports[id].player_name, accept_form(q.team))) # 0
         THEN /\ req' = [req EXCEPT ![r] =
                           Respond(WithBody(q, find_report_by_query_key(
                               reports, q.user_id,
                               make_query_key(reports[id].player_name,
                                              accept_form(q.team)))), 200)]
              /\ UNCHANGED <<user_credits, credit_ledger>>
         ELSE /\ user_credits' = s.uc
              /\ credit_ledger' = s.led
              /\ req' = [req EXCEPT ![r] =
                           AfterSpend([q EXCEPT !.name = reports[id].player_name,
                                                !.source_owner = source_user_id(reports, id)],
                                      s, "accept_save")]
    /\ UNCHANGED <<bal0, callVars, matchVars, embedVars, billingVars, namesVars, cacheVars, reports, reports0>>

\* the save of an accepted suggestion and its except branch (216-287)
AcceptSave(r) ==
    /\ req[r].pc = "accept_save"
    /\ \E save_raises \in BOOLEAN, refund_raises \in BOOLEAN :
         LET q == req[r]
             src == Src("scout_request_refund",
                        "accept_suggestion_" \o ToString(q.suggestion_report_id) \o ":refund")
             f == refund_credits(user_credits, credit_ledger, q.user_id, src, refund_raises) IN
           IF save_raises
           THEN /\ user_credits' = f.uc
                /\ credit_ledger' = f.led
                /\ req' = [req EXCEPT ![r] =
                     Respond(AfterRefund(FailedAfterDebit(
                               [q EXCEPT !.log = @ \cup {"Failed to save accepted suggestion"}],
                               "accept_save"), f), 500)]
                /\ UNCHANGED reports
           ELSE /\ ~refund_raises
                /\ reports' = upsert_report(reports, q.user_id, q.name, q.name,
                                            accept_form(q.team), q.source_owner)
                /\ req' = [req EXCEPT ![r] = Respond(q, 200)]
                /\ UNCHANGED <<user_credits, credit_ledger>>
    /\ UNCHANGED <<bal0, callVars, matchVars, embedVars, billingVars, namesVars, cacheVars, reports0>>

\* _try_similarity_matching (560-661) and the charge of
\* _handle_exact_match_suggestion (666-673); the scan over all users' reports
\* is time-bounded and may return no match
TrySimilarityMatching(r) ==
    /\ req[r].pc = "similarity"
    /\ LET q == req[r] IN
         \/ \* refresh, or no match
            /\ req' = [req EXCEPT ![r] = [q EXCEPT !.pc = "precheck"]]
            /\ UNCHANGED <<user_credits, credit_ledger>>
         \/ \* type "auto", or "suggest" with a score below 100, whose
            \* match_suggestion carries report_payload: free
            /\ ~q.refresh
            /\ \E id \in DOMAIN reports :
                 req' = [req EXCEPT ![r] = Respond(WithBody(q, id), 200)]
            /\ UNCHANGED <<user_credits, credit_ledger>>
         \/ \* type "suggest" with score 100
            /\ ~q.refresh
            /\ \E id \in DOMAIN reports :
                 /\ names_match(q.player, reports[id].player_name)
                 /\ fetch_report_payload(reports, q.user_id, id)
                 /\ LET src == Src("scout_request", "exact_match_" \o ToString(id))
                        s == spend_credits(user_credits, credit_ledger, q.user_id, src) IN
                      /\ user_credits' = s.uc
                      /\ credit_ledger' = s.led
                      /\ req' = [req EXCEPT ![r] =
                                   AfterSpend([q EXCEPT !.name = reports[id].player_name,
                                                        !.source_owner = reports[id].source_user_id],
                                              s, "exact_copy")]
    /\ UNCHANGED <<bal0, callVars, matchVars, embedVars, billingVars, namesVars, cacheVars, reports, reports0>>

\* the copy of _handle_exact_match_suggestion (675-712): its exceptions are
\* passed over and the response is 200 either way
ExactMatchCopy(r) ==
    /\ req[r].pc = "exact_copy"
    /\ \E copy_raises \in BOOLEAN :
         LET q == req[r] IN
           IF copy_raises
           THEN /\ req' = [req EXCEPT ![r] = Respond(FailedAfterDebit(q, "exact_copy"), 200)]
                /\ UNCHANGED reports
           ELSE /\ reports' =
                     IF find_report_by_query_key(reports, q.user_id,
                                                 make_query_key(q.player, "ptu")) # 0
                     THEN reports
                     ELSE upsert_report(reports, q.user_id, q.name, q.player, "ptu",
                                        q.source_owner)
                /\ req' = [req EXCEPT ![r] = Respond(q, 200)]
    /\ UNCHANGED <<tableVars, callVars, matchVars, embedVars, billingVars, namesVars, cacheVars, reports0>>

\* mutant: no balance pre-check
PreCheckBalance_skip(r) ==
    /\ req[r].pc = "precheck"
    /\ req' = [req EXCEPT ![r].pc = IF req[r].refresh THEN "llm" ELSE "global"]
    /\ UNCHANGED <<tableVars, callVars, matchVars, embedVars, billingVars, namesVars, cacheVars, reports, reports0>>

\* the balance pre-check (1225-1230)
PreCheckBalance(r) ==
    /\ req[r].pc = "precheck"
    /\ LET q == req[r] IN
         req' = [req EXCEPT ![r] =
                   IF get_balance(user_credits, q.user_id) < 1 THEN Respond(q, 402)
                   ELSE [q EXCEPT !.pc = IF q.refresh THEN "llm" ELSE "global"]]
    /\ UNCHANGED <<tableVars, callVars, matchVars, embedVars, billingVars, namesVars, cacheVars, reports, reports0>>

\* the report _check_global_cache finds (724-765): the latest row of any user
\* with the query key, else the latest whose player_name matches; 0 when none
global_cached_report(reps, player) ==
    LET K == {i \in DOMAIN reps : RowKey(reps[i]) = make_query_key(player, "ptu")}
        N == {i \in DOMAIN reps : names_match(player, reps[i].player_name)}
    IN IF K # {} THEN SetMax(K) ELSE IF N # {} THEN SetMax(N) ELSE 0

\* _check_global_cache up to its charge (716-775)
CheckGlobalCache(r) ==
    /\ req[r].pc = "global"
    /\ LET q == req[r]
           id == global_cached_report(reports, q.player)
           src == Src("scout_request", "global_cache_" \o ToString(id))
           s == spend_credits(user_credits, credit_ledger, q.user_id, src) IN
         IF id = 0
         THEN /\ req' = [req EXCEPT ![r] = [q EXCEPT !.pc = "llm"]]
              /\ UNCHANGED <<user_credits, credit_ledger>>
         ELSE /\ user_credits' = s.uc
              /\ credit_ledger' = s.led
              /\ req' = [req EXCEPT ![r] =
                           AfterSpend([q EXCEPT !.name = reports[id].player_name,
                                                !.source_owner = reports[id].source_user_id],
                                      s, "global_copy")]
    /\ UNCHANGED <<bal0, callVars, matchVars, embedVars, billingVars, namesVars, cacheVars, reports, reports0>>

\* the copy of _check_global_cache (777-811): on an exception the function
\* returns (None, None) and scout() goes on to generate
GlobalCacheCopy(r) ==
    /\ req[r].pc = "global_copy"
    /\ \E copy_raises \in BOOLEAN :
         LET q == req[r] IN
           IF copy_raises
           THEN /\ req' = [req EXCEPT ![r] =
                             [FailedAfterDebit(q, "global_copy") EXCEPT !.pc = "llm"]]
                /\ UNCHANGED reports
           ELSE /\ reports' = upsert_report(reports, q.user_id, q.name, q.player, "ptu",
                                            q.source_owner)
                /\ req' = [req EXCEPT ![r] = Respond(q, 200)]
    /\ UNCHANGED <<tableVars, callVars, matchVars, embedVars, billingVars, namesVars, cacheVars, reports0>>

\* _generate_report_with_llm (814-884): a report whose player the model
\* names; PLAYER_NOT_FOUND with a fallback match of the user's library, whose
\* 200 also goes on to the charge; PLAYER_NOT_FOUND without one; an exception.
\* The generation_failed event of a PLAYER_NOT_FOUND output is kept in log.
GenerateReportWithLlm(r) ==
    /\ req[r].pc = "llm"
    /\ LET q == req[r] IN
         \/ \E name \in Players :
              req' = [req EXCEPT ![r] = [q EXCEPT !.pc = "charge", !.name = name]]
         \/ /\ \E id \in DOMAIN reports : reports[id].user_id = q.user_id
            /\ req' = [req EXCEPT ![r] =
                         [q EXCEPT !.pc = "charge", !.name = q.player,
                                   !.log = @ \cup {"player_not_found"}]]
         \/ req' = [req EXCEPT ![r] =
                      Respond([q EXCEPT !.log = @ \cup {"player_not_found"}], 400)]
         \/ req' = [req EXCEPT ![r] = Respond(q, 500)]
    /\ UNCHANGED <<tableVars, callVars, matchVars, embedVars, billingVars, namesVars, cacheVars, reports, reports0>>

\* the charge of _persist_and_charge_report (896-901), keyed by the request id
ChargeReport(r) ==
    /\ req[r].pc = "charge"
    /\ LET q == req[r]
           s == spend_credits(user_credits, credit_ledger, q.user_id,
                              Src("scout_request", RequestId(r))) IN
         /\ user_credits' = s.uc
         /\ credit_ledger' = s.led
         /\ req' = [req EXCEPT ![r] = AfterSpend(q, s, "dedup")]
    /\ UNCHANGED <<bal0, callVars, matchVars, embedVars, billingVars, namesVars, cacheVars, reports, reports0>>

\* the user's row with player_name = canonical_player (920-921)
post_llm_existing(reps, u, name) ==
    \E i \in DOMAIN reps : reps[i].user_id = u /\ reps[i].player_name = name

\* mutant: the refund carries the source type and id of the charge
RefundPgSource_ofCharge(r) == Src("scout_request", RequestId(r))

\* source of the refund of a failed save
RefundPgSource(r) == Src("scout_request_refund", RequestId(r) \o ":refund_pg")

\* post-LLM canonical dedup (915-942): the user has the player by now, so the
\* charge is refunded and the existing report returned
PostLlmDedup(r) ==
    /\ req[r].pc = "dedup"
    /\ LET q == req[r] IN
         IF ~q.refresh /\ q.report_id = 0 /\ post_llm_existing(reports, q.user_id, q.name)
         THEN \E refund_raises \in BOOLEAN :
                LET f == refund_credits(user_credits, credit_ledger, q.user_id,
                             Src("scout_request_refund", RequestId(r) \o ":post_llm_dedup"),
                             refund_raises) IN
                  /\ user_credits' = f.uc
                  /\ credit_ledger' = f.led
                  /\ req' = [req EXCEPT ![r] = Respond(AfterRefund(q, f), 200)]
         ELSE /\ req' = [req EXCEPT ![r] = [q EXCEPT !.pc = "persist"]]
              /\ UNCHANGED <<user_credits, credit_ledger>>
    /\ UNCHANGED <<bal0, callVars, matchVars, embedVars, billingVars, namesVars, cacheVars, reports, reports0>>

\* mutant: a regeneration is saved as a new row
PersistReport_appends(r) ==
    /\ req[r].pc = "persist"
    /\ LET q == req[r] IN
         /\ reports' = Append(reports, ReportRow(q.user_id, q.name, q.player, "ptu"))
         /\ req' = [req EXCEPT ![r] = Respond(q, 200)]
    /\ UNCHANGED <<tableVars, callVars, matchVars, embedVars, billingVars, namesVars, cacheVars, reports0>>

\* the save of _persist_and_charge_report and its except branch (944-964)
PersistReport(r) ==
    /\ req[r].pc = "persist"
    /\ \E save_raises \in BOOLEAN, refund_raises \in BOOLEAN :
         LET q == req[r]
             update == q.report_id # 0 /\ q.refresh
             raises == \/ save_raises
                       \/ update /\ ~update_report_by_id_found(reports, q.user_id, q.report_id)
             f == refund_credits(user_credits, credit_ledger, q.user_id,
                                 RefundPgSource(r), refund_raises) IN
           IF raises
           THEN /\ user_credits' = f.uc
                /\ credit_ledger' = f.led
                /\ req' = [req EXCEPT ![r] =
                             Respond(AfterRefund(FailedAfterDebit(q, "persist"), f), 500)]
                /\ UNCHANGED reports
           ELSE /\ ~refund_raises
                /\ reports' =
                     IF update
                     THEN [reports EXCEPT ![q.report_id].player_name = q.name,
                                          ![q.report_id].source_user_id = ""]
                     ELSE upsert_report(reports, q.user_id, q.name, q.player, "ptu", "")
                /\ req' = [req EXCEPT ![r] = Respond(q, 200)]
                /\ UNCHANGED <<user_credits, credit_ledger>>
    /\ UNCHANGED <<bal0, callVars, matchVars, embedVars, billingVars, namesVars, cacheVars, reports0>>

----------------------------------------------------------------------------
(* The orchestrator specification *)

InitReports ==
    {<<>>} \cup {<<ReportRow(u, p, p, "ptu")>> : u \in Users, p \in Players}

InitScout ==
    /\ InitNoBilling
    /\ bal0 \in [Users -> 0..MaxInitBalance]
    /\ user_credits = bal0
    /\ credit_ledger =
         SelectSeq(<<LedgerEntry("u1", bal0["u1"], GrantSource("u1")),
                     LedgerEntry("u2", bal0["u2"], GrantSource("u2"))>>,
                   LAMBDA e : e.delta > 0)
    /\ InitLedgerCalls
    /\ reports \in InitReports
    /\ reports0 = reports
    /\ req = [r \in Requests |-> NoReq]
    /\ InitNoMatch
    /\ InitNoEmbed
    /\ InitNoNames
    /\ InitNoCache

NextScout ==
    \E r \in Requests :
        \/ Start(r)
        \/ FastPath(r)
        \/ AcceptSuggestion(r)
        \/ AcceptSave(r)
        \/ CheckUserLibrary(r)
        \/ HandleCachedReport(r)
        \/ StatsRefresh(r)
        \/ TrySimilarityMatching(r)
        \/ ExactMatchCopy(r)
        \/ PreCheckBalance(r)
        \/ CheckGlobalCache(r)
        \/ GlobalCacheCopy(r)
        \/ GenerateReportWithLlm(r)
        \/ ChargeReport(r)
        \/ PostLlmDedup(r)
        \/ PersistReport(r)

SpecScout == InitScout /\ [][NextScout]_vars

----------------------------------------------------------------------------
(* Claims about /api/scout, under SpecScout *)

Responded(r) == req[r].pc = "done"

\* a resolve-or-generate request: no refresh, no report id, no suggestion
PlainQuery(q) ==
    ~q.refresh /\ ~q.refresh_stats /\ q.report_id = 0 /\ q.suggestion_report_id = 0

\* the sum of the deltas of the entries whose source is in K
RECURSIVE SumOfSources(_, _)
SumOfSources(led, K) ==
    IF led = <<>> THEN 0
    ELSE (IF Head(led).source \in K THEN Head(led).delta ELSE 0)
         + SumOfSources(Tail(led), K)

\* C6: one user, one player the user has no report of, and only plain
\* resolve-or-generate requests of that user for that player, concurrent or
\* one after the other: once all have responded the user is down by at most 1.
C6_AtMostOneDebit ==
    \A u \in Users, p \in Players :
        ( /\ check_user_library(reports0, u, p) = 0
          /\ \A r \in Requests :
                /\ Responded(r)
                /\ PlainQuery(req[r])
                /\ req[r].user_id = u /\ req[r].player = p )
        => bal0[u] - get_balance(user_credits, u) <= 1

\* C7: a request that has responded changed the ledger by a net 0 or -1 and
\* applied at most one debit.
C7_NetZeroOrMinusOne ==
    \A r \in Requests :
        Responded(r) => req[r].delta \in {0, 0 - 1} /\ req[r].debits <= 1

C9_FailureAfterDebitNetZero ==
    \A r \in Requests :
        (Responded(r) /\ req[r].failed # "none" /\ ~req[r].refund_raised)
        => req[r].delta = 0

\* C10: a refund call that raised left a log event of the failed refund.
C10_RefundFailureLogged ==
    \A r \in Requests :
        req[r].refund_raised => "refund failed" \in req[r].log

\* C11: user B accepts a suggestion whose source report another user owns and
\* holds no report under its canonical query, so the handler is past its
\* charge: exactly one debit of 1 was applied for B by this acceptance,
\* whatever requests for the same suggested report id came before.
C11_AcceptanceDebitsOnce ==
    \A r \in Requests :
        req[r].pc = "accept_save" => req[r].debits = 1 /\ req[r].delta = 0 - 1

C14_NoCreditNoGeneration ==
    [][\A r \in Requests :
          ( /\ req[r].pc = "precheck"
            /\ get_balance(user_credits, req[r].user_id) = 0
            /\ req'[r] # req[r] )
          => /\ req'[r].pc = "done" /\ req'[r].status = 402
             /\ credit_ledger' = credit_ledger
             /\ user_credits' = user_credits]_vars

C14_Witness ==
    \E r \in Requests :
        /\ Responded(r) /\ req[r].status = 402 /\ PlainQuery(req[r])
        /\ bal0[req[r].user_id] = 0
        /\ reports = <<>>
        /\ \A i \in DOMAIN credit_ledger : credit_ledger[i].user_id # req[r].user_id

\* C15: a query without refresh and without stats-refresh confirmation, of a
\* user who owns a report under the query's key, is answered 200 with no ledger
\* mutation by the request.
C15_OwnedReportIsFree ==
    \A r \in Requests :
        ( /\ Responded(r)
          /\ ~req[r].refresh /\ ~req[r].refresh_stats
          /\ req[r].suggestion_report_id = 0
          /\ find_report_by_query_key(reports0, req[r].user_id,
                                      make_query_key(req[r].player, "ptu")) # 0 )
        => req[r].status = 200 /\ req[r].debits = 0 /\ req[r].delta = 0

C15_Witness ==
    \E r \in Requests :
        /\ Responded(r) /\ PlainQuery(req[r])
        /\ find_report_by_query_key(reports0, req[r].user_id,
                                    make_query_key(req[r].player, "ptu")) # 0
        /\ req[r].status = 200
        /\ get_balance(user_credits, req[r].user_id) = bal0[req[r].user_id]
        /\ bal0[req[r].user_id] >= 1

\* C16: in every state each user has at most one report row per query key.
C16_OneReportPerQueryKey ==
    \A i, j \in DOMAIN reports :
        (reports[i].user_id = reports[j].user_id /\ RowKey(reports[i]) = RowKey(reports[j]))
        => i = j

\* two saves of one user under one query key, one row
C16_Witness ==
    /\ \A r \in Requests :
          /\ Responded(r) /\ PlainQuery(req[r]) /\ req[r].status = 200
          /\ req[r].user_id = "u1" /\ req[r].debits = 1 /\ req[r].delta = 0 - 1
          /\ req[r].failed = "none"
    /\ reports0 = <<>>
    /\ Len(reports) = 1

----------------------------------------------------------------------------
(* Report matching (utils/similarity_matching.py, as services/reports.py   *)
(* calls it).  A stored report is seen through what the code computes from *)
(* its name and the query's: how the first names and the last names relate,*)
(* the stored league or team against the hint, and the token score.        *)

MaxCandidates == 2

\* the two calls of _best_similar_report: before generation over every
\* user's reports, and after the generator reported an unknown player over
\* the requester's own
Sites == {"pre_similarity", "fallback"}
\* the caller supplies a league, a team, or neither
Hints == {"none", "league", "team"}
\* first names: the same token; different tokens NICKNAME_MAP sends to one
\* name; tokens of similarity 60..79; tokens of similarity below 60.  None
\* but the first is prefix-compatible
FirstRels == {"equal", "nickname", "similar", "different"}
\* last names: the same token; one phonetic key; a typo SequenceMatcher
\* rates 0.85..0.89 with two phonetic keys; similarity 75..84; unrelated
LastRels == {"equal", "phonetic", "typo", "close", "different"}
\* the stored value of the hinted attribute: none, the hint's, another
Ctxs == {"", "same", "other"}
\* max(token_sort_ratio, token_set_ratio) of two different names
Scores == {70, 96}

Candidate ==
    {c \in [first_rel : FirstRels, last_rel : LastRels, ctx : Ctxs,
            score : Scores \cup {100}] :
        c.score = 100 <=> (c.first_rel = "equal" /\ c.last_rel = "equal")}

CandidateLists == UNION {[1..n -> Candidate] : n \in 0..MaxCandidates}

Min(a, b) == IF a < b THEN a ELSE b
Max(a, b) == IF a > b THEN a ELSE b

FIRSTNAME_REQUIRE == 90
FIRSTNAME_SECONDARY == 70
LASTNAME_HIGH == 95

\* user_id of the call: "*" scans every user's reports
match_user_id == IF site = "pre_similarity" THEN "*" ELSE "u1"

suggest_threshold ==
    IF site = "pre_similarity"
    THEN (IF hint = "league" THEN 68 ELSE 75)
    ELSE (IF hint = "league" THEN 75 ELSE 78)

auto_threshold_as_suggest == suggest_threshold

auto_threshold ==
    IF site = "pre_similarity"
    THEN (IF hint = "league" THEN 78 ELSE 88)
    ELSE (IF hint = "league" THEN 88 ELSE 92)

league_mismatch_ignored(c) == FALSE

\* league_norm and cand_league and league_norm != cand_league
league_mismatch(c) == hint = "league" /\ c.ctx = "other"

team_mismatch(c) == hint = "team" /\ c.ctx = "other"

have_team_or_league(c) == hint # "none" /\ c.ctx = "same"

first_canon_equal_unmapped(c) == c.first_rel = "equal"

\* NICKNAME_MAP.get(first, first) of both first tokens are equal
first_canon_equal(c) == c.first_rel \in {"equal", "nickname"}

\* equal tokens, equal phonetic keys, or SequenceMatcher >= 0.85
last_name_match(c) == c.last_rel \in {"equal", "phonetic", "typo"}

is_exact_match_never(c) == FALSE

is_exact_match(c) ==
    \/ c.first_rel = "equal" /\ c.last_rel = "equal"
    \/ last_name_match(c) /\ first_canon_equal(c)

\* equal, one phonetic key, or similarity >= 90 with lengths within 2
last_names_align(c) == c.last_rel \in {"equal", "phonetic"}

\* first_sim of _compute_alignment and of the reduced-name comparison
first_sim(c) ==
    CASE c.first_rel = "equal" -> 100
      [] c.first_rel = "nickname" -> 50
      [] c.first_rel = "similar" -> 75
      [] c.first_rel = "different" -> 30

\* last_sim of _compute_alignment and of the reduced-name comparison
last_sim(c) ==
    CASE c.last_rel = "equal" -> 100
      [] c.last_rel = "phonetic" -> 90
      [] c.last_rel = "typo" -> 86
      [] c.last_rel = "close" -> 78
      [] c.last_rel = "different" -> 30

\* the surname-only cap applies
cap_condition(c) ==
    /\ last_sim(c) >= 75 \/ c.last_rel = "equal"
    /\ ~first_canon_equal(c)
    /\ first_sim(c) < 80
    /\ c.first_rel # "equal"     \* not prefix-compatible

strong_last(c) == last_sim(c) >= 85 \/ c.last_rel = "equal"

strong_first(c) ==
    first_sim(c) >= 60 \/ c.first_rel = "equal" \/ first_canon_equal(c)

\* token_sort_ratio of first and last token: the names have two tokens
red_score(c) == c.score

phonetic_key_equal(c) == c.last_rel \in {"equal", "phonetic"}

\* vowel-stripped surnames rate >= 55
skeleton_close(c) == c.last_rel \in {"typo", "close"}

\* one iteration of the fuzzy scan on row i, from best/best_score b
ScanStep(b, i) ==
    LET c == candidates[i]
        s0 == IF cap_condition(c)
              THEN Min(c.score, suggest_threshold - 1) ELSE c.score
        b1 == IF s0 > b.best_score
              THEN [best |-> i, best_score |-> s0] ELSE b
        promote == strong_first(c) \/ have_team_or_league(c)
        red == red_score(c) >= 80 /\ strong_last(c)
        b2 == IF red /\ promote /\ Max(s0, 88) > b1.best_score
              THEN [best |-> i, best_score |-> Max(s0, 88)] ELSE b1
        s1 == IF red /\ ~promote
              THEN Min(s0, suggest_threshold - 1) ELSE s0
        lift == IF phonetic_key_equal(c) THEN 88
                ELSE IF skeleton_close(c) THEN 86 ELSE 0
        b3 == IF lift # 0 /\ promote /\ Max(s1, lift) > b2.best_score
              THEN [best |-> i, best_score |-> Max(s1, lift)] ELSE b2
    IN  IF league_mismatch(c) THEN b ELSE b3

RECURSIVE Scan(_)
Scan(n) ==
    IF n = 0 THEN [best |-> 0, best_score |-> 0] ELSE ScanStep(Scan(n - 1), n)

\* the first of the first n rows the exact pass returns, 0 if none
FirstExact(n) ==
    LET hits == {i \in 1..n :
                    /\ is_exact_match(candidates[i])
                    /\ ~league_mismatch(candidates[i])
                    /\ ~team_mismatch(candidates[i])
                    /\ last_names_align(candidates[i])}
    IN  IF hits = {} THEN 0 ELSE CHOOSE i \in hits : \A j \in hits : i <= j

\* get_report(user_id, id) of a listed row: every row is owned by a real
\* user, so the lookup under "*" finds nothing
get_report_listed(uid) == uid # "*"

MatchReturn(type, id, score, by) ==
    /\ match_result' = [type |-> type, report_id |-> id, score |-> score,
                        by |-> by]
    /\ stage' = "done"

\* the failed lookup ends the whole matching step
FindByEmbeddingSimilarity_aborts ==
    /\ stage = "embedding"
    /\ MatchReturn("error", 0, 0, "embedding")
    /\ UNCHANGED <<site, hint, candidates, best, best_score>>
    /\ UNCHANGED <<tableVars, callVars, scoutVars, embedVars, billingVars, namesVars, cacheVars>>

\* reports.py STEP 1, _find_by_embedding_similarity("*", ...): find_nearest
\* takes (conn, client, text) and is called with (client, player), so the
\* call raises TypeError inside the try and the stage returns None
FindByEmbeddingSimilarity ==
    /\ stage = "embedding"
    /\ stage' = "exact"
    /\ UNCHANGED <<site, hint, candidates, best, best_score, match_result>>
    /\ UNCHANGED <<tableVars, callVars, scoutVars, embedVars, billingVars, namesVars, cacheVars>>

\* _best_similar_report up to the end of the exact pass; the time budget
\* runs out after n rows, or not at all (n = Len)
ExactPass ==
    /\ stage = "exact"
    /\ IF candidates = <<>>
       THEN MatchReturn("miss", 0, 0, "empty")
       ELSE \E n \in 0..Len(candidates) :
              LET hit == FirstExact(n) IN
              IF hit # 0 THEN MatchReturn("suggest", hit, 100, "exact")
              ELSE IF n < Len(candidates)
              THEN MatchReturn("miss", 0, 0, "timeout")
              ELSE stage' = "fuzzy" /\ UNCHANGED match_result
    /\ UNCHANGED <<site, hint, candidates, best, best_score>>
    /\ UNCHANGED <<tableVars, callVars, scoutVars, embedVars, billingVars, namesVars, cacheVars>>

\* the scan gives up at the head of an iteration and returns what it has
\* found so far
FuzzyScan_returns_best_on_timeout ==
    /\ stage = "fuzzy"
    /\ \E n \in 0..Len(candidates) :
         /\ best' = Scan(n).best
         /\ best_score' = Scan(n).best_score
         /\ IF n < Len(candidates)
            THEN IF Scan(n).best = 0
                 THEN MatchReturn("miss", 0, 0, "timeout")
                 ELSE MatchReturn("suggest", Scan(n).best,
                                  Scan(n).best_score, "timeout")
            ELSE stage' = "decide" /\ UNCHANGED match_result
    /\ UNCHANGED <<site, hint, candidates>>
    /\ UNCHANGED <<tableVars, callVars, scoutVars, embedVars, billingVars, namesVars, cacheVars>>

\* the embedding pre-check, whose find_nearest calls raise as above and
\* leave tops empty, then the fuzzy scan: the time budget is found
\* exceeded at the head of the iteration after n rows, or not at all
\* (n = Len); best and best_score are the locals when the loop is left
FuzzyScan ==
    /\ stage = "fuzzy"
    /\ \E n \in 0..Len(candidates) :
         /\ best' = Scan(n).best
         /\ best_score' = Scan(n).best_score
         /\ IF n < Len(candidates)
            THEN MatchReturn("miss", 0, 0, "timeout")
            ELSE stage' = "decide" /\ UNCHANGED match_result
    /\ UNCHANGED <<site, hint, candidates>>
    /\ UNCHANGED <<tableVars, callVars, scoutVars, embedVars, billingVars, namesVars, cacheVars>>

\* the decision after the scan
Decide ==
    /\ stage = "decide"
    /\ IF best = 0
       THEN MatchReturn("miss", 0, 0, "decide")
       ELSE \E raised \in BOOLEAN :
              /\ raised => best_score >= auto_threshold
              /\ LET c == candidates[best] IN
                 IF best_score >= auto_threshold /\ raised
                 THEN MatchReturn("miss", 0, 0, "exception")
                 ELSE IF /\ best_score >= auto_threshold
                         /\ get_report_listed(match_user_id)
                 THEN MatchReturn("auto", best, best_score, "decide")
                 ELSE IF ~ \/ first_sim(c) >= FIRSTNAME_REQUIRE
                           \/ /\ best_score >= LASTNAME_HIGH
                              /\ first_sim(c) >= FIRSTNAME_SECONDARY
                 THEN MatchReturn("miss", 0, 0, "decide")
                 ELSE IF ~last_names_align(c)
                 THEN MatchReturn("miss", 0, 0, "decide")
                 ELSE IF best_score >= suggest_threshold
                 THEN MatchReturn("suggest", best, best_score, "decide")
                 ELSE MatchReturn("miss", 0, 0, "decide")
    /\ UNCHANGED <<site, hint, candidates, best, best_score>>
    /\ UNCHANGED <<tableVars, callVars, scoutVars, embedVars, billingVars, namesVars, cacheVars>>

InitMatch ==
    /\ InitNoBilling
    /\ bal0 = [u \in Users |-> 0]
    /\ user_credits = bal0
    /\ credit_ledger = <<>>
    /\ InitLedgerCalls
    /\ InitNoRequests
    /\ site \in Sites
    /\ hint \in Hints
    /\ candidates \in CandidateLists
    /\ stage = IF site = "pre_similarity" THEN "embedding" ELSE "exact"
    /\ best = 0
    /\ best_score = 0
    /\ match_result = NoOutcome
    /\ InitNoEmbed
    /\ InitNoNames
    /\ InitNoCache

NextMatch ==
    \/ FindByEmbeddingSimilarity
    \/ ExactPass
    \/ FuzzyScan
    \/ Decide

SpecMatch == InitMatch /\ [][NextMatch]_vars

----------------------------------------------------------------------------
(* Claims about report matching *)

MatchDone == stage = "done"

\* the hinted league or team of the row does not contradict the hint
ConstraintsSatisfied(c) == ~(hint # "none" /\ c.ctx = "other")

C13_AlignedHit(c) ==
    /\ c.first_rel \in {"equal", "nickname"}
    /\ c.last_rel \in {"equal", "phonetic"}
    /\ ConstraintsSatisfied(c)

C17_NoAutoOnSurnameOnly ==
    (hint = "none" /\ match_result.type = "auto")
    => ~ /\ candidates[match_result.report_id].last_rel = "equal"
         /\ candidates[match_result.report_id].first_rel
                \in {"similar", "different"}

\* such a row was the best of the scan, lifted to 88, and the call missed
C17_Witness ==
    /\ MatchDone
    /\ hint = "none"
    /\ site = "fallback"
    /\ Len(candidates) = 1
    /\ candidates[1].last_rel = "equal"
    /\ candidates[1].first_rel = "similar"
    /\ candidates[1].score = 96
    /\ best = 1
    /\ best_score = 88
    /\ match_result.type = "miss"
    /\ match_result.by = "decide"

\* C18: a row that meets the cap condition (last names equal or at least 75
\* similar, canonical first names different, not prefix-compatible, first
\* names less than 80 similar) competes for best with a score below the
\* suggest threshold, so the scan never returns it as AUTO or SUGGEST,
\* whatever league or team hint was supplied.
C18_CappedNeverReturned ==
    \A i \in 1..Len(candidates) :
        (/\ stage \in {"decide", "done"}
         /\ best = i
         /\ candidates[i].last_rel # "different"
         /\ candidates[i].first_rel \in {"similar", "different"})
        => ~(match_result.type \in {"auto", "suggest"}
             /\ match_result.report_id = i)

C20_AutoIffAtThreshold ==
    (MatchDone /\ best # 0 /\ match_result.by = "decide")
    => (match_result.type = "auto" <=> best_score >= auto_threshold)

----------------------------------------------------------------------------
(* The embedding check (utils/app_helpers.py, _find_by_embedding_similarity)*)
(* on what find_nearest returned.  A neighbour is seen through its cosine  *)
(* similarity in hundredths, whether get_report finds it for the user, and *)
(* the same name and hint relations as a fuzzy candidate; every stored     *)
(* report carries a player name.                                           *)

MaxTops == 2

\* cosine similarity times 100
EmbedSims == {70, 76, 80, 96}

Top ==
    [sim : EmbedSims, found : BOOLEAN, ctx : Ctxs, first_rel : FirstRels,
     last_rel : {"equal", "close"}]

\* find_nearest sorts by similarity, highest first
TopLists ==
    {t \in UNION {[1..n -> Top] : n \in 0..MaxTops} :
        \A i \in 1..(Len(t) - 1) : t[i].sim >= t[i + 1].sim}

\* embed_auto, embed_suggest of the caller
embed_auto == 95
embed_suggest == IF hint = "league" THEN 75 ELSE 78

\* best_sim >= 0.95 of the first-name check
VERY_STRONG == 95

first_name_allows_any(c) == TRUE

\* equal canonical first names, or first-name similarity high enough
first_name_allows(c) ==
    \/ first_canon_equal(c)
    \/ first_sim(c) >= FIRSTNAME_REQUIRE
    \/ c.sim >= VERY_STRONG /\ first_sim(c) >= FIRSTNAME_SECONDARY

\* the neighbour the checks go on with, 0 when the call returns None first
embedding_candidate(t) ==
    IF t = <<>> THEN 0
    ELSE IF ~t[1].found THEN 0
    ELSE IF league_mismatch(t[1])
         THEN IF Len(t) > 1 /\ t[2].found /\ ~league_mismatch(t[2])
              THEN 2 ELSE 0
    ELSE IF team_mismatch(t[1]) THEN 0
    ELSE 1

\* _find_by_embedding_similarity from the return of find_nearest on
EmbeddingCheck ==
    /\ stage = "embed_check"
    /\ \E raised \in BOOLEAN :
         LET k == embedding_candidate(tops) IN
         IF raised THEN MatchReturn("miss", 0, 0, "exception")
         ELSE IF k = 0 THEN MatchReturn("miss", 0, 0, "embedding")
         ELSE IF ~last_names_align(tops[k])
         THEN MatchReturn("miss", 0, 0, "embedding")
         ELSE IF ~first_name_allows(tops[k])
         THEN MatchReturn("miss", 0, 0, "embedding")
         ELSE IF tops[k].sim >= embed_auto
         THEN MatchReturn("auto", k, tops[k].sim, "embedding")
         ELSE IF tops[k].sim >= embed_suggest
         THEN MatchReturn("suggest", k, tops[k].sim, "embedding")
         ELSE MatchReturn("miss", 0, 0, "embedding")
    /\ UNCHANGED <<site, hint, candidates, best, best_score, tops>>
    /\ UNCHANGED <<namesVars, cacheVars, billingVars>>
    /\ UNCHANGED <<tableVars, callVars, scoutVars>>

InitEmbed ==
    /\ InitNoBilling
    /\ bal0 = [u \in Users |-> 0]
    /\ user_credits = bal0
    /\ credit_ledger = <<>>
    /\ InitLedgerCalls
    /\ InitNoRequests
    /\ site = "pre_similarity"
    /\ hint \in Hints
    /\ candidates = <<>>
    /\ stage = "embed_check"
    /\ best = 0
    /\ best_score = 0
    /\ match_result = NoOutcome
    /\ tops \in TopLists
    /\ InitNoNames
    /\ InitNoCache

NextEmbed == EmbeddingCheck

SpecEmbed == InitEmbed /\ [][NextEmbed]_vars

C23_FailuresDegrade ==
    [][/\ stage = "embedding" => stage' = "exact"
       /\ (stage' = "done" /\ match_result'.by \in {"empty", "exception"})
            => match_result'.type = "miss"]_vars

\* after the failed embedding lookup the fuzzy stage went on to a result
C23_Witness ==
    /\ MatchDone
    /\ site = "pre_similarity"
    /\ candidates # <<>>
    /\ match_result.type = "suggest"
    /\ match_result.by = "decide"

\* C24: a request with refresh set bypasses the cache: it is never answered
\* from the requester's stored report, from a match or from the global
\* cache, and with a balance of at least 1 it reaches the generator.
C24_RefreshBypassesCache ==
    [][\A r \in Requests :
         (req[r].refresh /\ req'[r] # req[r])
         => /\ req'[r].pc \notin {"cached", "stats_llm", "exact_copy",
                                  "global", "global_copy"}
            /\ req[r].pc \in {"library", "similarity"} => req'[r].pc # "done"
            /\ (/\ req[r].pc = "precheck"
                /\ get_balance(user_credits, req[r].user_id) >= 1)
               => req'[r].pc = "llm"]_vars

\* C25: a step of a refresh request for report id r neither adds nor removes
\* a report row, and changes no row other than row r owned by the
\* requester, which keeps its id, owner and query key.
C25_RefreshUpdatesInPlace ==
    [][\A r \in Requests :
         (req[r].refresh /\ req[r].report_id # 0 /\ req'[r] # req[r])
         => /\ Len(reports') = Len(reports)
            /\ \A i \in DOMAIN reports :
                 \/ reports'[i] = reports[i]
                 \/ /\ i = req[r].report_id
                    /\ reports[i].user_id = req[r].user_id
                    /\ reports'[i].user_id = reports[i].user_id
                    /\ RowKey(reports'[i]) = RowKey(reports[i])]_vars

\* a regeneration of the requester's own row was saved and answered 200,
\* and one of a row the requester does not own was answered 500
C25_Witness ==
    \E r, s \in Requests :
        /\ Responded(r)
        /\ req[r].refresh
        /\ req[r].report_id = 1
        /\ Len(reports) = 1
        /\ reports[1].user_id = req[r].user_id
        /\ req[r].status = 200
        /\ req[r].debits = 1
        /\ Responded(s)
        /\ req[s].refresh
        /\ req[s].report_id = 1
        /\ req[s].user_id # reports[1].user_id
        /\ req[s].status = 500
        /\ req[s].failed = "persist"

\* the query's first token is a nickname of the row's first name, the last
\* names are equal, and no league or team conflicts
C26_NicknameRow(c) ==
    c.first_rel = "nickname" /\ c.last_rel = "equal" /\ ConstraintsSatisfied(c)

\* C26 as stated: with such a row among the candidates the call returns AUTO
\* or SUGGEST, never no match.
C26_Original ==
    (MatchDone /\ \E i \in 1..Len(candidates) : C26_NicknameRow(candidates[i]))
    => match_result.type \in {"auto", "suggest"}

\* C26: with such a row among the candidates, and the time budget not run
\* out, the call returns SUGGEST with score 100 from the exact pass.
C26_NicknameHitSuggested ==
    (/\ MatchDone
     /\ match_result.by # "timeout"
     /\ \E i \in 1..Len(candidates) : C26_NicknameRow(candidates[i]))
    => /\ match_result.type = "suggest"
       /\ match_result.score = 100
       /\ match_result.by = "exact"

\* a nickname row with a low token score was suggested with score 100
C26_Witness ==
    /\ MatchDone
    /\ Len(candidates) = 1
    /\ C26_NicknameRow(candidates[1])
    /\ candidates[1].score = 70
    /\ hint = "none"
    /\ match_result.type = "suggest"
    /\ match_result.report_id = 1
    /\ match_result.score = 100

----------------------------------------------------------------------------
(* Name helpers: utils/normalize.py, utils/name_variants.py and the         *)
(* alignment scorer of utils/similarity_matching.py.  SpecNames draws the   *)
(* arguments of one call in its initial state and applies the helper.       *)
(* A string is a sequence of characters; a character is its name.           *)

MaxTokenLen == 2
MaxRawLen == 3

\* the letters of the name tokens the alignment scorer is called with
TokenChars == {"a", "b"}

\* a token of a normalized name: non-empty, no whitespace
Tokens == UNION {[1..n -> TokenChars] : n \in 1..MaxTokenLen}

\* length of the longest common subsequence of two strings
RECURSIVE LCS(_, _)
LCS(a, b) ==
    IF a = <<>> \/ b = <<>> THEN 0
    ELSE IF Head(a) = Head(b) THEN 1 + LCS(Tail(a), Tail(b))
    ELSE Max(LCS(Tail(a), b), LCS(a, Tail(b)))

\* int(token_set_ratio(a, b) or 0) on two single tokens: the normalized
\* indel similarity 100 * 2 * LCS / (len(a) + len(b)), truncated
compute_name_similarity(a, b) ==
    IF a = <<>> \/ b = <<>> THEN 0
    ELSE (200 * LCS(a, b)) \div (Len(a) + Len(b))

\* _compute_alignment(p_norm, n_norm); the arguments are given split
compute_alignment(p_parts, n_parts) ==
    LET first_p == IF p_parts # <<>> THEN p_parts[1] ELSE <<>>
        last_p == IF p_parts # <<>> THEN p_parts[Len(p_parts)] ELSE <<>>
        first_n == IF n_parts # <<>> THEN n_parts[1] ELSE <<>>
        last_n == IF n_parts # <<>> THEN n_parts[Len(n_parts)] ELSE <<>>
        first_sim_direct == compute_name_similarity(first_p, first_n)
        last_sim_direct == compute_name_similarity(last_p, last_n)
        score_direct == last_sim_direct * 2 + first_sim_direct
        first_sim_cross == compute_name_similarity(first_p, last_n)
        last_sim_cross == compute_name_similarity(last_p, first_n)
        score_cross == last_sim_cross * 2 + first_sim_cross
    IN  IF score_cross > score_direct
        THEN [first_p |-> first_p, first_n |-> last_n,
              last_p |-> last_p, last_n |-> first_n,
              first_sim |-> first_sim_cross, last_sim |-> last_sim_cross]
        ELSE [first_p |-> first_p, first_n |-> first_n,
              last_p |-> last_p, last_n |-> last_n,
              first_sim |-> first_sim_direct, last_sim |-> last_sim_direct]

\* the characters raw names are drawn from: ASCII letters of both cases,
\* U+00E1, U+0301 (category Mn), U+FF21, space, U+00A0, "-", U+00DF, "_"
RawChars ==
    {"a", "A", "a_acute", "acute", "fullwidth_A", "space", "nbsp", "hyphen",
     "sharp_s", "underscore"}

RawStrings == UNION {[1..n -> RawChars] : n \in 0..MaxRawLen}

\* whitespace for str.strip() and for \s
is_space(c) == c \in {"space", "nbsp"}

\* \w: alphanumeric or underscore
is_word(c) ==
    c \in {"a", "A", "s", "a_acute", "A_acute", "fullwidth_A", "sharp_s",
           "underscore"}

RECURSIVE lstrip(_)
lstrip(s) ==
    IF s # <<>> /\ is_space(Head(s)) THEN lstrip(Tail(s)) ELSE s

RECURSIVE rstrip(_)
rstrip(s) ==
    IF s # <<>> /\ is_space(s[Len(s)])
    THEN rstrip(SubSeq(s, 1, Len(s) - 1))
    ELSE s

\* str.strip()
strip(s) == rstrip(lstrip(s))

\* canonical decomposition of one character
canonical_decomposition(c) ==
    CASE c = "a_acute" -> <<"a", "acute">>
      [] c = "A_acute" -> <<"A", "acute">>
      [] OTHER -> <<c>>

\* compatibility decomposition of one character
compatibility_decomposition(c) ==
    CASE c = "fullwidth_A" -> <<"A">>
      [] c = "nbsp" -> <<"space">>
      [] OTHER -> canonical_decomposition(c)

RECURSIVE NFD(_)
NFD(s) ==
    IF s = <<>> THEN <<>>
    ELSE canonical_decomposition(Head(s)) \o NFD(Tail(s))

RECURSIVE NFKD(_)
NFKD(s) ==
    IF s = <<>> THEN <<>>
    ELSE compatibility_decomposition(Head(s)) \o NFKD(Tail(s))

\* canonical composition: a letter and the mark that follows it
RECURSIVE compose(_)
compose(s) ==
    IF s = <<>> THEN <<>>
    ELSE IF Len(s) >= 2 /\ s[1] \in {"a", "A"} /\ s[2] = "acute"
    THEN <<IF s[1] = "a" THEN "a_acute" ELSE "A_acute">>
         \o compose(SubSeq(s, 3, Len(s)))
    ELSE <<Head(s)>> \o compose(Tail(s))

\* unicodedata.normalize("NFKC", s)
NFKC(s) == compose(NFKD(s))

\* unidecode(s): every character to its ASCII transliteration
RECURSIVE unidecode(_)
unidecode(s) ==
    IF s = <<>> THEN <<>>
    ELSE (CASE Head(s) = "a_acute" -> <<"a">>
            [] Head(s) = "A_acute" -> <<"A">>
            [] Head(s) = "fullwidth_A" -> <<"A">>
            [] Head(s) = "nbsp" -> <<"space">>
            [] Head(s) = "acute" -> <<>>
            [] Head(s) = "sharp_s" -> <<"s", "s">>
            [] OTHER -> <<Head(s)>>) \o unidecode(Tail(s))

\* drop the characters of category Mn
RECURSIVE strip_marks(_)
strip_marks(s) ==
    IF s = <<>> THEN <<>>
    ELSE (IF Head(s) = "acute" THEN <<>> ELSE <<Head(s)>>)
         \o strip_marks(Tail(s))

\* str.lower()
RECURSIVE lower(_)
lower(s) ==
    IF s = <<>> THEN <<>>
    ELSE <<CASE Head(s) = "A" -> "a"
             [] Head(s) = "A_acute" -> "a_acute"
             [] OTHER -> Head(s)>> \o lower(Tail(s))

\* re.sub(r"[^\w\s]", " ", s)
RECURSIVE sub_punctuation(_)
sub_punctuation(s) ==
    IF s = <<>> THEN <<>>
    ELSE <<IF is_word(Head(s)) \/ is_space(Head(s)) THEN Head(s) ELSE "space">>
         \o sub_punctuation(Tail(s))

\* re.sub(r"\s+", " ", s)
RECURSIVE sub_whitespace(_)
sub_whitespace(s) ==
    IF s = <<>> THEN <<>>
    ELSE IF is_space(Head(s)) THEN <<"space">> \o sub_whitespace(lstrip(s))
    ELSE <<Head(s)>> \o sub_whitespace(Tail(s))

\* normalize_name without the trailing strip()
normalize_name_untrimmed(s, transliterate, has_unidecode) ==
    IF s = <<>> THEN <<>>
    ELSE LET composed == NFKC(strip(s))
             ascii == IF transliterate /\ has_unidecode
                      THEN unidecode(composed) ELSE composed
         IN  sub_whitespace(sub_punctuation(lower(strip_marks(NFD(ascii)))))

\* normalize_name(s, transliterate); has_unidecode is _HAS_UNIDECODE
normalize_name(s, transliterate, has_unidecode) ==
    IF s = <<>> THEN <<>>
    ELSE LET composed == NFKC(strip(s))
             ascii == IF transliterate /\ has_unidecode
                      THEN unidecode(composed) ELSE composed
         IN  strip(sub_whitespace(sub_punctuation(
                 lower(strip_marks(NFD(ascii))))))

\* a table in which one nickname maps to another nickname
NICKNAME_MAP_chained ==
    [kostas |-> "kostis", kostis |-> "konstantinos"]

NICKNAME_MAP ==
    [kostas |-> "konstantinos", kotsas |-> "konstantinos",
     kostaras |-> "konstantinos", kostis |-> "konstantinos",
     konsta |-> "konstantinos", gianis |-> "giannis", yianis |-> "giannis",
     gannis |-> "giannis", ken |-> "kenneth", kenny |-> "kenneth",
     bob |-> "robert", bobby |-> "robert", bill |-> "william",
     billy |-> "william", mike |-> "michael", mikey |-> "michael",
     chris |-> "christopher", tony |-> "anthony", joe |-> "joseph",
     joey |-> "joseph", dan |-> "daniel", danny |-> "daniel",
     dave |-> "david", matt |-> "matthew", matty |-> "matthew",
     steve |-> "steven", stevie |-> "steven", jim |-> "james",
     jimmy |-> "james", tom |-> "thomas", tommy |-> "thomas",
     will |-> "william", willie |-> "william", luca |-> "luka"]

\* NICKNAME_MAP.get(first, first)
first_canon(first) ==
    IF first \in DOMAIN NICKNAME_MAP THEN NICKNAME_MAP[first] ELSE first

\* first tokens: every key and every value of the table, and a name in neither
FirstNames ==
    DOMAIN NICKNAME_MAP \cup {NICKNAME_MAP[k] : k \in DOMAIN NICKNAME_MAP}
    \cup {"derrick"}

\* the alignment of a query and of the same query in "Surname Given" order
ComputeAlignment ==
    /\ fn = "compute_alignment"
    /\ ~returned
    /\ ret' = [aln |-> compute_alignment(arg.p_norm, arg.n_norm),
               reversed |-> compute_alignment(
                   <<arg.p_norm[2], arg.p_norm[1]>>, arg.n_norm)]
    /\ returned' = TRUE
    /\ UNCHANGED <<fn, arg>>
    /\ UNCHANGED <<tableVars, callVars, scoutVars, matchVars, embedVars, billingVars, cacheVars>>

\* normalize_name applied once, and again to its own result
NormalizeName ==
    /\ fn = "normalize_name"
    /\ ~returned
    /\ LET once == normalize_name(arg.s, arg.transliterate, arg.has_unidecode)
       IN  ret' = [once |-> once,
                   twice |-> normalize_name(once, arg.transliterate,
                                            arg.has_unidecode)]
    /\ returned' = TRUE
    /\ UNCHANGED <<fn, arg>>
    /\ UNCHANGED <<tableVars, callVars, scoutVars, matchVars, embedVars, billingVars, cacheVars>>

\* the nickname lookup applied once, and again to its own result
FirstCanon ==
    /\ fn = "first_canon"
    /\ ~returned
    /\ ret' = [once |-> first_canon(arg.first),
               twice |-> first_canon(first_canon(arg.first))]
    /\ returned' = TRUE
    /\ UNCHANGED <<fn, arg>>
    /\ UNCHANGED <<tableVars, callVars, scoutVars, matchVars, embedVars, billingVars, cacheVars>>

InitNames ==
    /\ InitNoBilling
    /\ bal0 = [u \in Users |-> 0]
    /\ user_credits = bal0
    /\ credit_ledger = <<>>
    /\ InitLedgerCalls
    /\ InitNoRequests
    /\ InitNoMatch
    /\ InitNoEmbed
    /\ InitNoCache
    /\ \/ /\ fn = "compute_alignment"
          /\ arg \in [p_norm : Tokens \X Tokens, n_norm : Tokens \X Tokens]
       \/ /\ fn = "normalize_name"
          /\ arg \in [s : RawStrings, transliterate : BOOLEAN,
                      has_unidecode : BOOLEAN]
       \/ /\ fn = "first_canon"
          /\ arg \in [first : FirstNames]
    /\ ret = <<>>
    /\ returned = FALSE

NextNames ==
    \/ ComputeAlignment
    \/ NormalizeName
    \/ FirstCanon

SpecNames == InitNames /\ [][NextNames]_vars

----------------------------------------------------------------------------
(* Claims about the name helpers *)

\* C27: for every two-token query and stored two-token name, the alignment
\* of the reversed query has the same first-name and last-name similarities
\* as the alignment of the query.
C27_ReversedSameSimilarities ==
    (returned /\ fn = "compute_alignment")
    => /\ ret.reversed.first_sim = ret.aln.first_sim
       /\ ret.reversed.last_sim = ret.aln.last_sim

\* C28: normalizing a normalized string changes nothing.
C28_NormalizeIdempotent ==
    (returned /\ fn = "normalize_name") => ret.twice = ret.once

\* a fullwidth capital with a combining mark and a trailing hyphen became "a"
C28_Witness ==
    /\ returned
    /\ fn = "normalize_name"
    /\ arg.s = <<"fullwidth_A", "acute", "hyphen">>
    /\ ~arg.transliterate
    /\ ret.once = <<"a">>
    /\ ret.twice = <<"a">>

\* C29: the nickname lookup applied to its own result changes nothing.
C29_CanonIdempotent ==
    (returned /\ fn = "first_canon") => ret.twice = ret.once

\* a nickname was folded to its canonical first name, which stayed
C29_Witness ==
    /\ returned
    /\ fn = "first_canon"
    /\ arg.first = "kostas"
    /\ ret.once = "konstantinos"
    /\ ret.twice = "konstantinos"

----------------------------------------------------------------------------
(* The query-embedding cache of find_nearest (utils/embeddings.py).         *)
(* SpecCache: concurrent find_nearest calls, one action per statement that  *)
(* reads or writes the query_embeddings table or calls the provider.        *)

NumLookups == 3

Lookups == 1..NumLookups

\* the query texts find_nearest is called with
Texts == {"t1", "t2"}

\* _query_hash(text): the SHA-256 digest of the text, taken as injective
query_hash(text) == <<"sha256", text>>

\* a find_nearest call that has not begun
NoLookup == [text |-> "", at |-> "idle", emb |-> "none", row_at_start |-> FALSE]

\* find_nearest(conn, client, text) is called; row_at_start records whether
\* the row of the text was stored when the call began (history)
FindNearest(l) ==
    /\ lookup[l].at = "idle"
    /\ \E text \in Texts :
         lookup' = [lookup EXCEPT ![l] =
                      [text |-> text, at |-> "load", emb |-> "none",
                       row_at_start |-> query_hash(text) \in query_embeddings]]
    /\ UNCHANGED <<query_embeddings, embed_calls>>
    /\ UNCHANGED <<tableVars, callVars, scoutVars, matchVars, embedVars, billingVars, namesVars>>

\* load_query_embedding that finds no row whatever the table holds
LoadQueryEmbedding_always_misses(l) ==
    /\ lookup[l].at = "load"
    /\ lookup' = [lookup EXCEPT ![l].at = "embed"]
    /\ UNCHANGED <<query_embeddings, embed_calls>>
    /\ UNCHANGED <<tableVars, callVars, scoutVars, matchVars, embedVars, billingVars, namesVars>>

\* emb = load_query_embedding(conn, text): the stored vector, None when
\* there is no row, or the SELECT raises and find_nearest with it
LoadQueryEmbedding(l) ==
    /\ lookup[l].at = "load"
    /\ \E raised \in BOOLEAN :
         lookup' = [lookup EXCEPT ![l] =
                      IF raised THEN [@ EXCEPT !.at = "raised"]
                      ELSE IF query_hash(@.text) \in query_embeddings
                      THEN [@ EXCEPT !.at = "search", !.emb = "loaded"]
                      ELSE [@ EXCEPT !.at = "embed"]]
    /\ UNCHANGED <<query_embeddings, embed_calls>>
    /\ UNCHANGED <<tableVars, callVars, scoutVars, matchVars, embedVars, billingVars, namesVars>>

\* emb = embed_text(client, text): one provider call, which returns the
\* vector or raises, and find_nearest with it
EmbedText(l) ==
    /\ lookup[l].at = "embed"
    /\ embed_calls' = [embed_calls EXCEPT ![lookup[l].text] = @ + 1]
    /\ \E raised \in BOOLEAN :
         lookup' = [lookup EXCEPT ![l] =
                      IF raised THEN [@ EXCEPT !.at = "raised"]
                      ELSE [@ EXCEPT !.at = "store", !.emb = "computed"]]
    /\ UNCHANGED query_embeddings
    /\ UNCHANGED <<tableVars, callVars, scoutVars, matchVars, embedVars, billingVars, namesVars>>

\* store_query_embedding(conn, text, emb); conn.commit(); an exception of
\* either is swallowed and leaves no row
StoreQueryEmbedding(l) ==
    /\ lookup[l].at = "store"
    /\ \E raised \in BOOLEAN :
         query_embeddings' =
             IF raised THEN query_embeddings
             ELSE query_embeddings \cup {query_hash(lookup[l].text)}
    /\ lookup' = [lookup EXCEPT ![l].at = "search"]
    /\ UNCHANGED embed_calls
    /\ UNCHANGED <<tableVars, callVars, scoutVars, matchVars, embedVars, billingVars, namesVars>>

\* load_all_embeddings, the cosine of every row, sort, top_k
ScoreRows(l) ==
    /\ lookup[l].at = "search"
    /\ lookup' = [lookup EXCEPT ![l].at = "done"]
    /\ UNCHANGED <<query_embeddings, embed_calls>>
    /\ UNCHANGED <<tableVars, callVars, scoutVars, matchVars, embedVars, billingVars, namesVars>>

InitCache ==
    /\ InitNoBilling
    /\ bal0 = [u \in Users |-> 0]
    /\ user_credits = bal0
    /\ credit_ledger = <<>>
    /\ InitLedgerCalls
    /\ InitNoRequests
    /\ InitNoMatch
    /\ InitNoEmbed
    /\ InitNoNames
    /\ query_embeddings = {}
    /\ lookup = [l \in Lookups |-> NoLookup]
    /\ embed_calls = [text \in Texts |-> 0]

NextCache ==
    \E l \in Lookups :
        \/ FindNearest(l)
        \/ LoadQueryEmbedding(l)
        \/ EmbedText(l)
        \/ StoreQueryEmbedding(l)
        \/ ScoreRows(l)

SpecCache == InitCache /\ [][NextCache]_vars

----------------------------------------------------------------------------
(* Claims about the query-embedding cache *)

\* C30 as stated: the provider is called at most once for every query text.
C30_Original ==
    \A text \in Texts : embed_calls[text] <= 1

\* C30: a find_nearest call that begins when the vector of its text is
\* stored reuses the stored vector and makes no provider call.
C30_StoredVectorReused ==
    \A l \in Lookups :
        lookup[l].row_at_start
        => /\ lookup[l].at \notin {"embed", "store"}
           /\ lookup[l].emb # "computed"

\* one call computed and stored the vector, a later call of the same text
\* loaded it, and the provider was called once
C30_Witness ==
    /\ lookup[1] = [text |-> "t1", at |-> "done", emb |-> "computed",
                    row_at_start |-> FALSE]
    /\ lookup[2] = [text |-> "t1", at |-> "done", emb |-> "loaded",
                    row_at_start |-> TRUE]
    /\ query_hash("t1") \in query_embeddings
    /\ embed_calls["t1"] = 1

----------------------------------------------------------------------------
(* Further claims about the credit ledger *)

\* C31: in every reachable state, under any interleaving of spend and refund
\* calls, no user's balance is negative, committed or pending in a transaction.
C31_BalanceNeverNegative ==
    /\ \A u \in DOMAIN user_credits : user_credits[u] >= 0
    /\ \A p \in Calls : tx[p].bal >= 0

\* a spend of 2 was refused on a balance of 1 that the other call had left
C31_Witness ==
    \E p, q \in Calls :
        /\ p # q
        /\ pc[p] = "done" /\ pc[q] = "done"
        /\ call[p].user_id = call[q].user_id
        /\ call[q].op = "spend" /\ call[q].amount = 1 /\ result[q].status = "ok"
        /\ call[p].op = "spend" /\ call[p].amount = 2
        /\ bal0[call[p].user_id] = 2
        /\ result[p].status = "INSUFFICIENT_CREDITS"
        /\ user_credits[call[p].user_id] = 1

\* the ledger before the first call: the grants of the initial balances
ledger0 ==
    SelectSeq(<<LedgerEntry("u1", bal0["u1"], GrantSource("u1")),
                LedgerEntry("u2", bal0["u2"], GrantSource("u2"))>>,
              LAMBDA e : e.delta > 0)

\* the call was refused for insufficient balance or rejected for its arguments
Refused(p) ==
    /\ pc[p] = "done"
    /\ result[p].status \in {"INSUFFICIENT_CREDITS", "ValueError"}

\* C32: the step in which a spend is refused for insufficient balance, or a
\* spend or refund is rejected for a non-positive amount or a missing source,
\* appends no ledger entry and changes no balance; and when every call made
\* so far ended that way, the ledger and every balance are as before the calls.
C32_RefusalChangesNothing ==
    /\ [](((\A p \in Calls : pc[p] = "idle" \/ Refused(p)))
          => /\ credit_ledger = ledger0
             /\ \A u \in Users : get_balance(user_credits, u) = bal0[u])
    /\ [][\A p \in Calls :
            (~Refused(p) /\ Refused(p)')
            => /\ credit_ledger' = credit_ledger
               /\ \A u \in Users :
                    get_balance(user_credits', u) = get_balance(user_credits, u)]_vars

\* a spend refused for its balance and a refund rejected for a missing source
C32_Witness ==
    \E p, q \in Calls :
        /\ Refused(p) /\ Refused(q)
        /\ call[p].op = "spend" /\ call[p].amount = 2
        /\ result[p].status = "INSUFFICIENT_CREDITS"
        /\ bal0[call[p].user_id] = 1
        /\ call[q].op = "refund" /\ call[q].amount = 1 /\ call[q].source = ""
        /\ result[q].status = "ValueError"
        /\ credit_ledger = ledger0

----------------------------------------------------------------------------
(* Further claims about the orchestrator *)

\* C33: once the generator's output was the subject-not-found sentinel, no
\* step of the request appends a ledger entry or creates or updates a report
\* row, whatever the fallback fuzzy pass returned.
C33_NotFoundChargesNothing ==
    [][\A r \in Requests :
         ("player_not_found" \in req[r].log /\ req[r]' # req[r])
         => /\ credit_ledger' = credit_ledger
            /\ reports' = reports]_vars


\* C34: under any interleaving of concurrent requests, no request that has
\* not been debited is answered 402 by the charge that follows its
\* generation: a request that ends with 402 ended without the generator
\* having been invoked for it.
C34_No402AfterGeneration ==
    [][\A r \in Requests :
         (req[r].pc = "charge" /\ req[r].debits = 0)
         => ~(req[r]'.pc = "done" /\ req[r]'.status = 402)]_vars


\* C35: a request answered with the full body of a report owned by another
\* user has a 1-credit debit of its requester recorded in the ledger.
C35_NoFreeForeignReport ==
    \A r \in Requests :
        ( /\ req[r].pc = "done"
          /\ req[r].status = 200
          /\ req[r].body # 0
          /\ reports[req[r].body].user_id # req[r].user_id )
        => req[r].debits >= 1


\* C36: accepting a suggestion whose source report does not exist ends with
\* 404, and accepting one the requester already owns (the source is a report
\* of the requester, or the requester has a report under the same query key)
\* ends with 200; in all three cases the step appends no ledger entry and
\* creates no report row
C36_AcceptOwnedOrMissingIsFree ==
    [][\A r \in Requests :
         (req[r].pc = "accept" /\ req[r]' # req[r])
         => LET q == req[r]
                id == q.suggestion_report_id
            IN /\ ~get_report_by_id(reports, id)
                  => /\ req[r]'.pc = "done" /\ req[r]'.status = 404
                     /\ credit_ledger' = credit_ledger /\ reports' = reports
               /\ ( /\ get_report_by_id(reports, id)
                    /\ \/ reports[id].user_id = q.user_id
                       \/ find_report_by_query_key(reports, q.user_id,
                             make_query_key(reports[id].player_name,
                                            accept_form(q.team))) # 0 )
                  => /\ req[r]'.pc = "done" /\ req[r]'.status = 200
                     /\ credit_ledger' = credit_ledger /\ reports' = reports]_vars


----------------------------------------------------------------------------
(* Claims about the welcome bonus *)

\* a call of initialize_user_with_welcome_credits for user u
WelcomeCall(p, u) ==
    /\ pc[p] # "idle"
    /\ call[p].user_id = u
    /\ call[p].source \notin SourceArgs

\* the committed ledger entries of user u that are welcome bonuses
WelcomeEntries(u) ==
    {i \in 1..Len(credit_ledger) :
        /\ credit_ledger[i].user_id = u
        /\ credit_ledger[i].source \notin SourceKeys
        /\ credit_ledger[i].source # GrantSource(u)}

\* C37: whatever the number and the interleaving of the calls of
\* initialize_user_with_welcome_credits, a user has at most one welcome entry,
\* of 3 credits; a call that returned has left exactly one; and when the
\* welcome calls are the only calls the balance has grown by exactly 3
C37_WelcomeGrantedOnce ==
    \A u \in Users :
        /\ Cardinality(WelcomeEntries(u)) <= 1
        /\ \A i \in WelcomeEntries(u) : credit_ledger[i].delta = WelcomeCredits
        /\ (\E p \in Calls : Done(p) /\ WelcomeCall(p, u) /\ result[p].status = "ok")
           => Cardinality(WelcomeEntries(u)) = 1
        /\ (\A p \in Calls : Done(p) /\ WelcomeCall(p, u))
           => get_balance(user_credits, u) = bal0[u] + WelcomeCredits

\* two concurrent welcome calls of one user have both returned
C37_Witness ==
    \E p, q \in Calls, u \in Users :
        /\ p # q
        /\ Done(p) /\ Done(q)
        /\ WelcomeCall(p, u) /\ WelcomeCall(q, u)
        /\ Concurrent(p, q)
        /\ result[p].status = "ok" /\ result[q].status = "ok"
        /\ get_balance(user_credits, u) = bal0[u] + WelcomeCredits


----------------------------------------------------------------------------
(* Stripe billing (services/billing.py): webhook deliveries and confirm calls *)

MaxCredits == 2
MaxDbFailures == 1

\* the id of the checkout session
SessionId == "cs1"

\* source_type "stripe_session", source_id session_id: the key of both grants
stripe_source(sid) == Src("stripe_session", sid)

\* payment_status in ("paid", "no_payment_required")
is_paid(status) == status \in {"paid", "no_payment_required"}

\* the events Stripe emits for a checkout session, with the payment status of
\* the session object each carries
CompletedEvent(status) ==
    [id |-> "evt1", type |-> "checkout.session.completed", payment_status |-> status]

AsyncPaymentSucceededEvent ==
    [id |-> "evt2", type |-> "checkout.session.async_payment_succeeded",
     payment_status |-> "paid"]

EventOf(id) == CHOOSE e \in events : e.id = id

refund_credits_of_unkeyed(uc, led, u, n, src, fails) ==
    IF fails
    THEN [uc |-> uc, led |-> led, raised |-> TRUE]
    ELSE [uc |-> [v \in DOMAIN uc \cup {u} |->
                    IF v = u THEN get_balance(uc, u) + n ELSE uc[v]],
          led |-> Append(led, LedgerEntry(u, n, src)),
          raised |-> FALSE]

\* refund_credits(user_id, credits, ...) as one step; fails is the call raising,
\* which leaves the tables as they were
refund_credits_of(uc, led, u, n, src, fails) ==
    IF fails
    THEN [uc |-> uc, led |-> led, raised |-> TRUE]
    ELSE IF UniqueViolation(led, src)
    THEN [uc |-> [v \in DOMAIN uc \cup {u} |-> get_balance(uc, v)],
          led |-> led, raised |-> FALSE]
    ELSE [uc |-> [v \in DOMAIN uc \cup {u} |->
                    IF v = u THEN get_balance(uc, u) + n ELSE uc[v]],
          led |-> Append(led, LedgerEntry(u, n, src)),
          raised |-> FALSE]

\* whether a database call of handler h may raise now
MayRaise(fails) == fails => db_failures < MaxDbFailures

CountFailure(fails) == db_failures' = db_failures + (IF fails THEN 1 ELSE 0)

HandlerDone(h, status) == [handler[h] EXCEPT !.pc = "done", !.status = status]

\* a slot is free before its first call and after a call has answered
Free(h) == handler[h].pc \in {"idle", "done"}

\* Stripe delivers an emitted event, for the first time or again: the webhook
\* verifies the signature (400 when it is wrong) and converts the event
StripeWebhook(h) ==
    /\ Free(h)
    /\ \E e \in events, valid \in BOOLEAN :
         handler' = [handler EXCEPT ![h] =
                       IF valid
                       THEN [NoHandler EXCEPT !.kind = "webhook", !.pc = "record",
                                              !.event = e.id]
                       ELSE [NoHandler EXCEPT !.kind = "webhook", !.pc = "done",
                                              !.event = e.id, !.status = 400]]
    /\ UNCHANGED <<session, events, stripe_events, stripe_purchases, db_failures>>
    /\ UNCHANGED <<tableVars, callVars, scoutVars, matchVars, embedVars, namesVars, cacheVars>>

\* record_stripe_event: insert ... on conflict (event_id) do nothing, commit
record_stripe_event(ids, id) == ids \cup {id}

\* stripe_webhook 92-115: the event is recorded and committed, a second sight of
\* it answers at once; a failure of the recording counts as a first sight. Then
\* the type and the payment status of the session decide whether to grant
RecordStripeEvent(h) ==
    /\ handler[h].pc = "record"
    /\ \E fails \in BOOLEAN :
         /\ MayRaise(fails)
         /\ CountFailure(fails)
         /\ LET e == EventOf(handler[h].event)
                first_time == fails \/ e.id \notin stripe_events
            IN /\ stripe_events' = IF fails THEN stripe_events
                                   ELSE record_stripe_event(stripe_events, e.id)
               /\ handler' = [handler EXCEPT ![h] =
                    IF ~first_time THEN HandlerDone(h, 200)
                    ELSE IF /\ e.type \in {"checkout.session.completed",
                                           "checkout.session.async_payment_succeeded"}
                            /\ is_paid(e.payment_status)
                    THEN [handler[h] EXCEPT !.pc = "purchase", !.first_time = TRUE,
                                            !.user_id = session.user_id]
                    ELSE [HandlerDone(h, 200) EXCEPT !.first_time = TRUE]]
    /\ UNCHANGED <<session, events, stripe_purchases>>
    /\ UNCHANGED <<tableVars, callVars, scoutVars, matchVars, embedVars, namesVars, cacheVars>>

\* record_stripe_purchase, of the webhook and of the confirm call: insert ... on
\* conflict (checkout_session_id) do nothing; a failure is swallowed
RecordStripePurchase(h) ==
    /\ handler[h].pc = "purchase"
    /\ \E fails \in BOOLEAN :
         /\ MayRaise(fails)
         /\ CountFailure(fails)
         /\ stripe_purchases' = IF fails THEN stripe_purchases
                                ELSE stripe_purchases \cup {SessionId}
    /\ handler' = [handler EXCEPT ![h].pc = "grant"]
    /\ UNCHANGED <<session, events, stripe_events>>
    /\ UNCHANGED <<tableVars, callVars, scoutVars, matchVars, embedVars, namesVars, cacheVars>>

\* stripe_webhook 135-148: the grant; an exception is swallowed and the answer
\* is {"ok": True} either way
WebhookGrant(h) ==
    /\ handler[h].pc = "grant"
    /\ handler[h].kind = "webhook"
    /\ \E fails \in BOOLEAN :
         /\ MayRaise(fails)
         /\ CountFailure(fails)
         /\ LET f == refund_credits_of(user_credits, credit_ledger, handler[h].user_id,
                                       session.credits, stripe_source(SessionId), fails)
            IN /\ user_credits' = f.uc
               /\ credit_ledger' = f.led
               /\ handler' = [handler EXCEPT ![h] =
                                [HandlerDone(h, 200) EXCEPT !.raised = f.raised]]
    /\ UNCHANGED <<session, events, stripe_events, stripe_purchases, bal0>>
    /\ UNCHANGED <<callVars, scoutVars, matchVars, embedVars, namesVars, cacheVars>>

\* stripe_confirm 151-177: the session is retrieved; 409 when it is not paid,
\* 403 when it is another user's
StripeConfirm(h) ==
    /\ Free(h)
    /\ \E u \in Users :
         handler' = [handler EXCEPT ![h] =
                       IF ~is_paid(session.payment_status)
                       THEN [NoHandler EXCEPT !.kind = "confirm", !.pc = "done",
                                              !.user_id = u, !.status = 409]
                       ELSE IF session.user_id # u
                       THEN [NoHandler EXCEPT !.kind = "confirm", !.pc = "done",
                                              !.user_id = u, !.status = 403]
                       ELSE [NoHandler EXCEPT !.kind = "confirm", !.pc = "purchase",
                                              !.user_id = u]]
    /\ UNCHANGED <<session, events, stripe_events, stripe_purchases, db_failures>>
    /\ UNCHANGED <<tableVars, callVars, scoutVars, matchVars, embedVars, namesVars, cacheVars>>

\* stripe_confirm 196-203: the grant under the key of the webhook; an exception
\* leaves the handler (500)
ConfirmGrant(h) ==
    /\ handler[h].pc = "grant"
    /\ handler[h].kind = "confirm"
    /\ \E fails \in BOOLEAN :
         /\ MayRaise(fails)
         /\ CountFailure(fails)
         /\ LET f == refund_credits_of(user_credits, credit_ledger, handler[h].user_id,
                                       session.credits, stripe_source(SessionId), fails)
            IN /\ user_credits' = f.uc
               /\ credit_ledger' = f.led
               /\ handler' = [handler EXCEPT ![h] =
                                [HandlerDone(h, IF f.raised THEN 500 ELSE 200)
                                   EXCEPT !.raised = f.raised]]
    /\ UNCHANGED <<session, events, stripe_events, stripe_purchases, bal0>>
    /\ UNCHANGED <<callVars, scoutVars, matchVars, embedVars, namesVars, cacheVars>>

\* an unpaid session is paid later: Stripe emits async_payment_succeeded
AsyncPaymentSucceeded ==
    /\ session.payment_status = "unpaid"
    /\ session' = [session EXCEPT !.payment_status = "paid"]
    /\ events' = events \cup {AsyncPaymentSucceededEvent}
    /\ UNCHANGED <<stripe_events, stripe_purchases, handler, db_failures>>
    /\ UNCHANGED <<tableVars, callVars, scoutVars, matchVars, embedVars, namesVars, cacheVars>>

\* a checkout session of 1..MaxCredits credits has been completed, paid or not
\* yet paid, and Stripe has emitted checkout.session.completed
InitBilling ==
    /\ InitTables /\ InitLedgerCalls /\ InitNoRequests
    /\ InitNoMatch /\ InitNoEmbed /\ InitNoNames /\ InitNoCache
    /\ \E u \in Users, n \in 1..MaxCredits, st \in {"paid", "unpaid"} :
         /\ session = [user_id |-> u, credits |-> n, payment_status |-> st]
         /\ events = {CompletedEvent(st)}
    /\ stripe_events = {}
    /\ stripe_purchases = {}
    /\ handler = [h \in Handlers |-> NoHandler]
    /\ db_failures = 0

NextWebhook ==
    \/ AsyncPaymentSucceeded
    \/ \E h \in Handlers :
         \/ StripeWebhook(h)
         \/ RecordStripeEvent(h)
         \/ RecordStripePurchase(h)
         \/ WebhookGrant(h)

NextBilling ==
    \/ NextWebhook
    \/ \E h \in Handlers :
         \/ StripeConfirm(h)
         \/ ConfirmGrant(h)

SpecBilling == InitBilling /\ [][NextBilling]_vars

\* webhook deliveries alone: Stripe keeps redelivering, every handler that has
\* started runs to its answer, and the payment of the session arrives
FairWebhook ==
    /\ WF_vars(AsyncPaymentSucceeded)
    /\ \A h \in Handlers :
         /\ WF_vars(StripeWebhook(h))
         /\ WF_vars(RecordStripeEvent(h))
         /\ WF_vars(RecordStripePurchase(h))
         /\ WF_vars(WebhookGrant(h))

SpecWebhook == InitBilling /\ [][NextWebhook]_vars /\ FairWebhook


----------------------------------------------------------------------------
(* Claims about billing *)

\* the ledger entries under the key of the checkout session
SessionEntries == EntriesWithSource(credit_ledger, stripe_source(SessionId))

\* handler h ran its grant and the grant returned
Granted(h) ==
    /\ handler[h].pc = "done"
    /\ handler[h].status = 200
    /\ ~handler[h].raised
    /\ \/ handler[h].kind = "confirm"
       \/ /\ handler[h].kind = "webhook"
          /\ handler[h].first_time
          /\ is_paid(EventOf(handler[h].event).payment_status)

\* C38: whatever the number and the interleaving of the webhook deliveries and
\* confirm calls of a checkout session, the ledger holds at most one entry of
\* the session, the buyer's balance has grown by the purchased credits once per
\* entry and nobody else's has changed, and once a delivery or a confirm call
\* has made its grant the entry is there
C38_SessionCreditedOnce ==
    /\ Cardinality(SessionEntries) <= 1
    /\ get_balance(user_credits, session.user_id)
         = bal0[session.user_id] + session.credits * Cardinality(SessionEntries)
    /\ \A u \in Users \ {session.user_id} : get_balance(user_credits, u) = bal0[u]
    /\ \A h \in Handlers : Granted(h) => Cardinality(SessionEntries) = 1

\* a webhook delivery and a confirm call have both made their grant
C38_Witness ==
    \E h, g \in Handlers :
        /\ Granted(h) /\ handler[h].kind = "webhook"
        /\ Granted(g) /\ handler[g].kind = "confirm"
        /\ Cardinality(SessionEntries) = 1
        /\ session.credits = 2


\* the session has been credited
Credited == SessionEntries # {}

\* a delivery of a paid-checkout event whose grant raised
GrantFailed(h) ==
    /\ handler[h].kind = "webhook"
    /\ handler[h].pc = "done"
    /\ handler[h].raised

\* C39: when the grant of a webhook delivery of a paid session has failed, the
\* redeliveries of the event lead to the session being credited
C39_RedeliveryCredits ==
    \A h \in Handlers : GrantFailed(h) ~> Credited

====
